---- MODULE Spec2Model ----
(***************************************************************************)
(* Project status state machine of the Grayco / KB Signs suite: the        *)
(* projects, commissions and production_logistics tables written by        *)
(* services/database_manager.py, the Streamlit handlers of views/*.py that *)
(* call it, and the Zapier webhook of api/lead_receiver.py.                *)
(*                                                                         *)
(* One action is one Streamlit script run in which a button reports a      *)
(* click (or one HTTP request): the guard is the conjunction of the        *)
(* conditions on the code path that renders the button, read from the      *)
(* database and st.session_state in that run.  A dialog opened by a        *)
(* session flag is rendered under the same conditions as the button that   *)
(* sets the flag, so "open dialog" and "send" are one action.              *)
(*                                                                         *)
(* An SMTP send succeeds or fails (send_email returns (bool, message)).    *)
(* A database statement can fail too (execute_update returns False); that  *)
(* outcome is modelled for the webhook, the deposit confirmation and the   *)
(* closeout, and every other statement is taken to commit.                 *)
(***************************************************************************)
EXTENDS Integers, Sequences, FiniteSets, TLC

(* ---- bounds ---- *)
MaxDay == 2
MaxAmount == 1
\* payment rows passed to group_commissions_by_period
MaxEvents == 3
\* payment rows passed to get_report_period_commissions
MaxReportRows == 2
\* the last day, as date.toordinal(), handed to calculate_business_days
MaxOrdinal == 15

Days == 1..MaxDay
\* dollar amounts typed into the number_input widgets
Amounts == 1..MaxAmount
\* two browser sessions; 0 stands for "no session" in lastOp
Sessions == {1, 2}
\* the sessions whose user puts a file into the design-proof uploader
\* (the sessions are alike otherwise, so one stands for either)
Uploaders == {1}
ProjectIds == {"p1"}
NoProject == "none"
NULL == 0

(***************************************************************************)
(* Status strings.  A stored status is kept as a string; Spell gives its   *)
(* characters so that str.lower(), str.upper(), str.replace() and the      *)
(* `in` operator are computed character by character as Python does.       *)
(***************************************************************************)
StoredStatuses ==
    { "New", "Block A", "Design", "Quoting",
      "PROPOSAL SENT - AWAITING CUSTOMER", "ACTIVE PRODUCTION",
      "Confirmed", "completed", "Completed",
      "Closed - Won", "Closed - Lost", "Archived", "MIGRATED" }

Spell(status) ==
    CASE status = "" -> <<>>
      [] status = "New" -> <<"N", "e", "w">>
      [] status = "Block A" -> <<"B", "l", "o", "c", "k", " ", "A">>
      [] status = "Design" -> <<"D", "e", "s", "i", "g", "n">>
      [] status = "Quoting" -> <<"Q", "u", "o", "t", "i", "n", "g">>
      [] status = "PROPOSAL SENT - AWAITING CUSTOMER" -> <<"P", "R", "O", "P", "O", "S", "A", "L", " ", "S", "E", "N", "T", " ", "-", " ", "A", "W", "A", "I", "T", "I", "N", "G", " ", "C", "U", "S", "T", "O", "M", "E", "R">>
      [] status = "ACTIVE PRODUCTION" -> <<"A", "C", "T", "I", "V", "E", " ", "P", "R", "O", "D", "U", "C", "T", "I", "O", "N">>
      [] status = "Confirmed" -> <<"C", "o", "n", "f", "i", "r", "m", "e", "d">>
      [] status = "completed" -> <<"c", "o", "m", "p", "l", "e", "t", "e", "d">>
      [] status = "Completed" -> <<"C", "o", "m", "p", "l", "e", "t", "e", "d">>
      [] status = "Closed - Won" -> <<"C", "l", "o", "s", "e", "d", " ", "-", " ", "W", "o", "n">>
      [] status = "Closed - Lost" -> <<"C", "l", "o", "s", "e", "d", " ", "-", " ", "L", "o", "s", "t">>
      [] status = "Archived" -> <<"A", "r", "c", "h", "i", "v", "e", "d">>
      [] status = "MIGRATED" -> <<"M", "I", "G", "R", "A", "T", "E", "D">>
      [] status = "Awaiting Deposit" -> <<"A", "w", "a", "i", "t", "i", "n", "g", " ", "D", "e", "p", "o", "s", "i", "t">>

UpperLetters == <<"A", "B", "C", "D", "E", "F", "G", "H", "I", "J", "K", "L", "M", "N", "O", "P", "Q", "R", "S", "T", "U", "V", "W", "X", "Y", "Z">>
LowerLetters == <<"a", "b", "c", "d", "e", "f", "g", "h", "i", "j", "k", "l", "m", "n", "o", "p", "q", "r", "s", "t", "u", "v", "w", "x", "y", "z">>

IndexIn(c, letters) ==
    IF \E i \in DOMAIN letters : letters[i] = c
    THEN CHOOSE i \in DOMAIN letters : letters[i] = c
    ELSE 0

lower(str) ==
    [i \in DOMAIN str |->
        IF IndexIn(str[i], UpperLetters) # 0
        THEN LowerLetters[IndexIn(str[i], UpperLetters)] ELSE str[i]]

upper(str) ==
    [i \in DOMAIN str |->
        IF IndexIn(str[i], LowerLetters) # 0
        THEN UpperLetters[IndexIn(str[i], LowerLetters)] ELSE str[i]]

replace(str, old, new) ==
    [i \in DOMAIN str |-> IF str[i] = old THEN new ELSE str[i]]

contains(str, sub) ==
    \E k \in 0..(Len(str) - Len(sub)) :
        \A j \in 1..Len(sub) : str[k + j] = sub[j]

focus_mode_statuses ==
    { <<"a", "c", "t", "i", "v", "e", "_", "p", "r", "o", "d", "u", "c", "t", "i", "o", "n">>,
      <<"p", "r", "o", "d", "u", "c", "t", "i", "o", "n">>,
      <<"i", "n", "_", "p", "r", "o", "d", "u", "c", "t", "i", "o", "n">>,
      <<"i", "n", "s", "t", "a", "l", "l", "e", "d">>,
      <<"c", "o", "m", "p", "l", "e", "t", "e", "d">>,
      <<"i", "n", "v", "o", "i", "c", "e", "d">>,
      <<"p", "e", "r", "m", "i", "t", "_", "p", "e", "n", "d", "i", "n", "g">> }

design_early_statuses ==
    { <<"m", "i", "g", "r", "a", "t", "e", "d">>,
      <<"l", "e", "a", "d">>,
      <<"n", "e", "w">>,
      <<"p", "e", "n", "d", "i", "n", "g">> }

pricing_early_statuses ==
    { <<"m", "i", "g", "r", "a", "t", "e", "d">>,
      <<"l", "e", "a", "d">>,
      <<"n", "e", "w">>,
      <<"p", "e", "n", "d", "i", "n", "g">>,
      <<"d", "e", "s", "i", "g", "n">> }

lost_button_hidden_statuses ==
    { <<"c", "l", "o", "s", "e", "d", "_", "-", "_", "w", "o", "n">>,
      <<"c", "l", "o", "s", "e", "d", "_", "-", "_", "l", "o", "s", "t">>,
      <<"c", "o", "m", "p", "l", "e", "t", "e", "d">>,
      <<"a", "r", "c", "h", "i", "v", "e", "d">> }

decision_hidden_statuses ==
    { <<"c", "l", "o", "s", "e", "d", "_", "-", "_", "w", "o", "n">>,
      <<"c", "l", "o", "s", "e", "d", "_", "-", "_", "l", "o", "s", "t">>,
      <<"c", "o", "m", "p", "l", "e", "t", "e", "d">>,
      <<"a", "r", "c", "h", "i", "v", "e", "d">>,
      <<"n", "e", "w">> }

decision_production_statuses ==
    { <<"a", "c", "t", "i", "v", "e", "_", "p", "r", "o", "d", "u", "c", "t", "i", "o", "n">>,
      <<"i", "n", "_", "p", "r", "o", "d", "u", "c", "t", "i", "o", "n">>,
      <<"p", "r", "o", "d", "u", "c", "t", "i", "o", "n">>,
      <<"r", "e", "a", "d", "y", "_", "f", "o", "r", "_", "i", "n", "s", "t", "a", "l", "l">>,
      <<"i", "n", "s", "t", "a", "l", "l", "e", "d">>,
      <<"c", "o", "n", "f", "i", "r", "m", "e", "d">> }

closeout_production_statuses ==
    { <<"A", "C", "T", "I", "V", "E", " ", "P", "R", "O", "D", "U", "C", "T", "I", "O", "N">>,
      <<"i", "n", "_", "p", "r", "o", "d", "u", "c", "t", "i", "o", "n">>,
      <<"p", "r", "o", "d", "u", "c", "t", "i", "o", "n">>,
      <<"r", "e", "a", "d", "y", "_", "f", "o", "r", "_", "i", "n", "s", "t", "a", "l", "l">>,
      <<"i", "n", "s", "t", "a", "l", "l", "e", "d">>,
      <<"p", "e", "r", "m", "i", "t", "_", "p", "e", "n", "d", "i", "n", "g">> }

logistics_production_statuses ==
    { <<"A", "C", "T", "I", "V", "E", " ", "P", "R", "O", "D", "U", "C", "T", "I", "O", "N">>,
      <<"i", "n", "_", "p", "r", "o", "d", "u", "c", "t", "i", "o", "n">>,
      <<"p", "r", "o", "d", "u", "c", "t", "i", "o", "n">>,
      <<"r", "e", "a", "d", "y", "_", "f", "o", "r", "_", "i", "n", "s", "t", "a", "l", "l">>,
      <<"i", "n", "s", "t", "a", "l", "l", "e", "d">>,
      <<"c", "o", "m", "p", "l", "e", "t", "e", "d">>,
      <<"i", "n", "v", "o", "i", "c", "e", "d">>,
      <<"p", "e", "r", "m", "i", "t", "_", "p", "e", "n", "d", "i", "n", "g">> }

design_or_higher_statuses ==
    { <<"d", "e", "s", "i", "g", "n">>,
      <<"q", "u", "o", "t", "i", "n", "g">>,
      <<"p", "r", "o", "p", "o", "s", "a", "l">>,
      <<"p", "r", "i", "c", "i", "n", "g">>,
      <<"a", "w", "a", "i", "t", "i", "n", "g", "_", "d", "e", "p", "o", "s", "i", "t">>,
      <<"a", "w", "a", "i", "t", "i", "n", "g">>,
      <<"c", "o", "n", "f", "i", "r", "m", "e", "d">>,
      <<"a", "p", "p", "r", "o", "v", "e", "d">>,
      <<"a", "c", "t", "i", "v", "e", "_", "p", "r", "o", "d", "u", "c", "t", "i", "o", "n">>,
      <<"p", "r", "o", "d", "u", "c", "t", "i", "o", "n">>,
      <<"i", "n", "_", "p", "r", "o", "d", "u", "c", "t", "i", "o", "n">>,
      <<"i", "n", "s", "t", "a", "l", "l", "e", "d">>,
      <<"c", "o", "m", "p", "l", "e", "t", "e", "d">>,
      <<"i", "n", "v", "o", "i", "c", "e", "d">>,
      <<"p", "e", "r", "m", "i", "t", "_", "p", "e", "n", "d", "i", "n", "g">> }

victory_lap_excluded ==
    { <<"c", "o", "m", "p", "l", "e", "t", "e", "d">>,
      <<"c", "a", "n", "c", "e", "l", "l", "e", "d">>,
      <<"l", "o", "s", "t">>,
      <<"a", "r", "c", "h", "i", "v", "e", "d">>,
      <<"c", "l", "o", "s", "e", "d", " ", "-", " ", "w", "o", "n">>,
      <<"c", "l", "o", "s", "e", "d", " ", "-", " ", "l", "o", "s", "t">> }

lit_archived == <<"a", "r", "c", "h", "i", "v", "e", "d">>
lit_completed == <<"c", "o", "m", "p", "l", "e", "t", "e", "d">>
lit_PROPOSAL_SENT == <<"P", "R", "O", "P", "O", "S", "A", "L", " ", "S", "E", "N", "T">>
lit_AWAITING_CUSTOMER == <<"A", "W", "A", "I", "T", "I", "N", "G", " ", "C", "U", "S", "T", "O", "M", "E", "R">>

(***************************************************************************)
(* State                                                                   *)
(***************************************************************************)
VARIABLES
    projects,              \* projects table: one row per project id
    commissions,           \* commissions table: at most one row per project
    production_logistics,  \* production_logistics.target_installation_date
    session_state,         \* st.session_state of each browser session
    today,                 \* today_mountain(), a day number
    lastOp,                \* what the last handler run did
    tables,                \* delete_project: the tables that hold rows of the project
    delete_call,           \* delete_project: the call in progress
    workers,               \* two sessions racing on one project: statement positions
    last_update,           \* the status set by the last UPDATE that matched the row
    ledger,                \* the ledger page: the joined row, the events, what is shown
    period_groups,         \* group_commissions_by_period: its argument and its result
    report,                \* get_report_period_commissions: today, its argument, its result
    business_days,         \* calculate_business_days: its arguments and its result
    alerts,                \* get_system_alerts: the clock, the project row, the alerts
    webhook,               \* one POST to /api/lead_receiver: body, transaction, response
    service_call,          \* one call made under a given DATABASE_URL and SMTP setup
    delete_ui              \* the delete confirmations kept in each st.session_state

\* the state of the status machine
mainVars == <<projects, commissions, production_logistics, session_state, today, lastOp>>
\* the state of one delete_project call
deleteVars == <<tables, delete_call>>
\* the state of a race of two sessions, besides the projects table
raceVars == <<workers, last_update>>
\* what the handlers of the status machine leave alone
\* the state of the commission ledger
ledgerVars == <<ledger, period_groups>>
\* the calls of the report and alert functions
toolVars == <<report, business_days, alerts, webhook, service_call, delete_ui>>
sideVars == <<deleteVars, raceVars, ledgerVars, toolVars>>

vars == <<mainVars, sideVars>>

NoRow ==
    [ exists |-> FALSE, status |-> "",
      design_proof_drive_id |-> "", no_design_required |-> FALSE,
      master_spec_file_id |-> "", signed_spec_file_id |-> "",
      production_locked |-> FALSE,
      deposit_invoice_requested |-> FALSE, deposit_invoice_sent |-> FALSE,
      deposit_received_date |-> NULL, deposit_amount |-> 0 ]

NewRow(status) == [NoRow EXCEPT !.exists = TRUE, !.status = status]

NoCommission ==
    [ exists |-> FALSE, total_value |-> 0, deposit_amount |-> 0,
      deposit_received_date |-> NULL, final_payment_date |-> NULL,
      total_amount_received |-> 0 ]

\* st.session_state: page, current_lead_id / current_project_id (one of
\* them is read, the one of the page shown) and the design_uploaded_<id>
\* flag of Block B.  The legacy_proposal_sent_<id> flag of Block C is not
\* kept: it is False in every fresh session, and a fresh session can be
\* opened at any time, so it hides the legacy button from no user.
NoSession ==
    [ page |-> "Dashboard", current |-> NoProject,
      design_uploaded |-> [p \in ProjectIds |-> FALSE] ]

\* lastOp: op names the handler, s the browser session that ran it (0 for
\* the webhook and the import, which run in none), p the project it acted on, pre the status
\* the project had when the run started, email the outcome of the send it
\* attempted ("none" when it attempted no send), ok whether its status
\* write (or its only write) was committed, raised whether the run ended in
\* an exception raised by a database_manager call, hist/touch the rows it appended to
\* project_history / project_touches.
Op(name, s, p, pre, email, ok, raised, hist, touch) ==
    [ op |-> name, s |-> s, p |-> p, pre |-> pre, email |-> email, ok |-> ok,
      raised |-> raised, hist |-> hist, touch |-> touch, input |-> <<>> ]

\* the same, for a handler that reads widgets: input is what the user
\* entered
OpWith(name, s, p, pre, ok, raised, hist, touch, input) ==
    [ Op(name, s, p, pre, "none", ok, raised, hist, touch) EXCEPT !.input = input ]

MainInit ==
    /\ projects = [p \in ProjectIds |-> NoRow]
    /\ commissions = [p \in ProjectIds |-> NoCommission]
    /\ production_logistics = [p \in ProjectIds |-> NULL]
    /\ session_state = [s \in Sessions |-> NoSession]
    /\ today = 1
    /\ lastOp = Op("init", 0, NoProject, "", "none", TRUE, FALSE, 0, 0)

(***************************************************************************)
(* database_manager.py: delete_project(project_id), one call, statement by *)
(* statement.  tables[t] says whether table t holds rows of the project in *)
(* the committed database; delete_call.tx is the same as the transaction   *)
(* of the call sees it.                                                    *)
(***************************************************************************)
\* execute_delete_associated_records: tables_with_project_fk
tables_with_project_fk ==
    << "contacts", "estimates", "locations", "processed_emails",
       "project_estimates", "project_files", "project_photos", "project_touches" >>

\* the tables of the store that reference a project and are not in
\* tables_with_project_fk
tables_not_covered ==
    { "commissions", "project_history", "production_logistics", "project_proposals" }

AllTables ==
    {"projects"} \cup { tables_with_project_fk[i] : i \in 1..Len(tables_with_project_fk) }
                 \cup tables_not_covered

\* the tables that hold rows of the project when the call starts
RowTables == { "projects", "contacts", "project_touches", "commissions" }

NoRows == [t \in AllTables |-> FALSE]

NoResult == [ success |-> FALSE, message |-> "", named |-> <<>> ]

\* pc: "idle" before the call, "children" in the loop over
\* tables_with_project_fk, "done" after the return; i the index of the next
\* child table; before the committed tables when the call started; raised
\* the child tables whose DELETE raised; child_errors the tables of the
\* `errors` list; result the returned tuple, with the tables its message
\* names
IdleCall ==
    [ pc |-> "idle", i |-> 1, before |-> NoRows, tx |-> NoRows, raised |-> {},
      child_errors |-> <<>>, result |-> NoResult ]

\* the ledger page not opened
NoLedger == [ pc |-> "closed", row |-> <<>>, events |-> <<>>, shown |-> <<>>, total |-> 0 ]

\* group_commissions_by_period not called
NoGrouping == [ pc |-> "closed", commissions |-> <<>>, grouped |-> <<>> ]

\* a session that runs no statement of a race
NoWorker == [ job |-> "none", pc |-> "done", seen |-> "" ]

\* no report is being filtered
NoReport ==
    [ pc |-> "idle", today |-> NULL, commissions |-> <<>>, period |-> <<>>, filtered |-> <<>> ]

\* no business days are being counted
NoBusinessDays ==
    [ pc |-> "idle", from_date |-> [ kind |-> "None", day |-> 0, hour |-> 0 ],
      to_date |-> [ kind |-> "None", day |-> 0, hour |-> 0 ], result |-> 0 ]

\* no alert query is running
NoAlerts ==
    [ pc |-> "idle", now |-> 0, status |-> "", status_updated_at |-> 0,
      snooze_until |-> 0, alert_type |-> "none", business_days |-> 0 ]

\* no request is being served
NoWebhook ==
    [ pc |-> "idle", kind |-> "none",
      fields |-> [ name |-> "", client_name |-> "", phone |-> "", phone_number |-> "", email |-> "" ],
      engine |-> TRUE, tx |-> [ projects |-> 0, project_history |-> 0 ],
      projects |-> 0, project_history |-> 0, new_status |-> "",
      code |-> 0, status |-> "", message |-> "" ]

\* no call is being made
NoServiceCall ==
    [ pc |-> "idle", database_url |-> "postgresql",
      smtp |-> [ SMTP_SERVER |-> "x", SMTP_PORT |-> "587", SMTP_EMAIL |-> "x", SMTP_PASSWORD |-> "x" ],
      fn |-> "none", result |-> "none", raised |-> "none", statements |-> 0 ]

\* confirm_delete_<id> (the footer checkbox) and confirm_delete_lead_<id>
\* (set by the "Del" button of a hot lead card), both unset
NoDeleteUi ==
    [ s \in Sessions |-> [ confirm_delete |-> FALSE, confirm_delete_lead |-> FALSE ] ]

\* every function call but the named one is idle
ToolsIdleExcept(running) ==
    /\ IF running = "report" THEN TRUE ELSE report = NoReport
    /\ IF running = "business_days" THEN TRUE ELSE business_days = NoBusinessDays
    /\ IF running = "alerts" THEN TRUE ELSE alerts = NoAlerts
    /\ IF running = "webhook" THEN TRUE ELSE webhook = NoWebhook
    /\ IF running = "service_call" THEN TRUE ELSE service_call = NoServiceCall
    /\ IF running = "delete_ui" THEN TRUE ELSE delete_ui = NoDeleteUi

\* a step of the named function call leaves the other calls alone
ToolsUnchangedExcept(running) ==
    /\ IF running = "report" THEN TRUE ELSE UNCHANGED report
    /\ IF running = "business_days" THEN TRUE ELSE UNCHANGED business_days
    /\ IF running = "alerts" THEN TRUE ELSE UNCHANGED alerts
    /\ IF running = "webhook" THEN TRUE ELSE UNCHANGED webhook
    /\ IF running = "service_call" THEN TRUE ELSE UNCHANGED service_call
    /\ IF running = "delete_ui" THEN TRUE ELSE UNCHANGED delete_ui

SideIdle ==
    /\ ToolsIdleExcept("none")
    /\ tables = NoRows
    /\ delete_call = IdleCall
    /\ workers = [s \in Sessions |-> NoWorker]
    /\ last_update = ""
    /\ ledger = NoLedger
    /\ period_groups = NoGrouping

Init ==
    /\ MainInit
    /\ SideIdle

\* a rollback that keeps what the transaction did
rollback_keeps_work(committed, working) == working

\* trans.rollback(): the committed tables are what they were
rollback(committed, working) == committed

\* get_engine(); conn.begin()
DeleteBegin ==
    /\ delete_call.pc = "idle"
    /\ \E engine \in BOOLEAN :
          delete_call' =
              IF engine
              THEN [delete_call EXCEPT !.pc = "children", !.before = tables, !.tx = tables]
              ELSE [delete_call EXCEPT !.pc = "done", !.before = tables, !.tx = tables,
                                       !.result = [ success |-> FALSE,
                                                    message |-> "Database engine not available",
                                                    named |-> <<>> ]]
    /\ UNCHANGED <<tables, mainVars, raceVars, ledgerVars, toolVars>>

\* one turn of the loop: DELETE FROM {table} WHERE project_id = :project_id
\* deletes, or raises an error whose text holds "does not exist" (the table
\* is not in the schema, so it holds no row), or raises another error
DeleteChild ==
    /\ delete_call.pc = "children"
    /\ delete_call.i <= Len(tables_with_project_fk)
    /\ LET table == tables_with_project_fk[delete_call.i]
       IN  \E outcome \in {"deleted", "does_not_exist", "error"} :
             /\ outcome = "does_not_exist" => ~delete_call.tx[table]
             /\ delete_call' =
                   [delete_call EXCEPT
                      !.i = @ + 1,
                      !.tx = IF outcome = "deleted" THEN [@ EXCEPT ![table] = FALSE] ELSE @,
                      !.raised = IF outcome = "deleted" THEN @ ELSE @ \cup {table},
                      !.child_errors = IF outcome = "error" THEN Append(@, table) ELSE @]
    /\ UNCHANGED <<tables, mainVars, raceVars, ledgerVars, toolVars>>

\* if child_errors: trans.rollback(); return (False, "Failed to clear child
\* records: ...")
DeleteAbort ==
    /\ delete_call.pc = "children"
    /\ delete_call.i > Len(tables_with_project_fk)
    /\ delete_call.child_errors # <<>>
    /\ tables' = rollback(tables, delete_call.tx)
    /\ delete_call' =
          [delete_call EXCEPT !.pc = "done",
                              !.result = [ success |-> FALSE,
                                           message |-> "Failed to clear child records",
                                           named |-> delete_call.child_errors ]]
    /\ UNCHANGED <<mainVars, raceVars, ledgerVars, toolVars>>

\* DELETE FROM projects WHERE id = :project_id: commit if rowcount > 0,
\* roll back if not or if the statement (or the commit) raised
DeleteProjectRow ==
    /\ delete_call.pc = "children"
    /\ delete_call.i > Len(tables_with_project_fk)
    /\ delete_call.child_errors = <<>>
    /\ \E outcome \in {"executed", "foreign_key", "error"} :
          IF outcome = "executed" /\ delete_call.tx["projects"]
          THEN /\ tables' = [delete_call.tx EXCEPT !["projects"] = FALSE]
               /\ delete_call' =
                     [delete_call EXCEPT !.pc = "done",
                                         !.tx = [@ EXCEPT !["projects"] = FALSE],
                                         !.result = [ success |-> TRUE, message |-> "",
                                                      named |-> <<>> ]]
          ELSE /\ tables' = rollback(tables, delete_call.tx)
               /\ delete_call' =
                     [delete_call EXCEPT
                        !.pc = "done",
                        !.result =
                           [ success |-> FALSE,
                             message |->
                                CASE outcome = "executed" -> "Project not found or already deleted"
                                  [] outcome = "foreign_key" -> "Foreign key constraint blocking"
                                  [] OTHER -> "Database error during delete",
                             named |-> <<>> ]]
    /\ UNCHANGED <<mainVars, raceVars, ledgerVars, toolVars>>

\* one call of delete_project on a project with rows in some of RowTables
DeleteInit ==
    /\ MainInit
    /\ ToolsIdleExcept("none")
    /\ tables \in { f \in [AllTables -> BOOLEAN] : \A t \in AllTables \ RowTables : ~f[t] }
    /\ delete_call = IdleCall
    /\ workers = [s \in Sessions |-> NoWorker]
    /\ last_update = ""
    /\ ledger = NoLedger
    /\ period_groups = NoGrouping

DeleteNext == DeleteBegin \/ DeleteChild \/ DeleteAbort \/ DeleteProjectRow

DeleteSpec == DeleteInit /\ [][DeleteNext]_vars

(***************************************************************************)
(* database_manager.py: statements                                         *)
(***************************************************************************)
\* UPDATE projects SET status = :status ... WHERE id = :project_id
update_project_status(rows, p, new_status) ==
    [rows EXCEPT ![p].status = new_status]

\* the UPDATE with a status = 'New' condition
update_lead_status_if_new(rows, p, new_status) ==
    IF rows[p].status = "New" THEN [rows EXCEPT ![p].status = new_status] ELSE rows

\* update_lead_status issues the same unconditional UPDATE
update_lead_status(rows, p, new_status) ==
    [rows EXCEPT ![p].status = new_status]

\* the UPDATE without its status = 'New' condition
add_lead_note_any_status(rows, p) == [rows EXCEPT ![p].status = "Block A"]

\* add_lead_note: UPDATE ... SET status = 'Block A' WHERE ... status = 'New'
add_lead_note(rows, p) ==
    IF rows[p].status = "New" THEN [rows EXCEPT ![p].status = "Block A"] ELSE rows

\* get_new_leads: WHERE status = 'New' (is_active_v3 is TRUE on every row
\* the intake paths insert)
get_new_leads == { p \in ProjectIds : projects[p].exists /\ projects[p].status = "New" }

StatusOf(p) == projects[p].status

\* The normalisations the views apply to a status before comparing it,
\* tabulated over the statuses a row can hold.
\* status.lower()
LowerOf == [st \in StoredStatuses \cup {""} |-> lower(Spell(st))]
\* status.upper()
UpperOf == [st \in StoredStatuses \cup {""} |-> upper(Spell(st))]
\* (status or "").lower().replace(" ", "_")
Norm1Of == [st \in StoredStatuses \cup {""} |-> replace(lower(Spell(st)), " ", "_")]
\* (status or "").lower().replace(" ", "_").replace("-", "_")
Norm2Of == [st \in StoredStatuses \cup {""} |->
               replace(replace(lower(Spell(st)), " ", "_"), "-", "_")]

status_lower(p) == LowerOf[StatusOf(p)]
status_norm1(p) == Norm1Of[StatusOf(p)]
status_norm2(p) == Norm2Of[StatusOf(p)]

FreeIds == { p \in ProjectIds : ~projects[p].exists }

\* st.session_state.page is set to "Dashboard" by the Back and archive
\* handlers and to "dashboard" by the won / lost handlers; both show the
\* dashboard and the model keeps the first spelling for both.
IsDashboard(page) == page = "Dashboard"

(***************************************************************************)
(* Intake                                                                  *)
(***************************************************************************)
\* create_lead: INSERT INTO projects (... status ...) VALUES (... 'New' ...)
create_lead(p) ==
    /\ projects' = [projects EXCEPT ![p] = NewRow("New")]
    /\ UNCHANGED <<commissions, production_logistics, session_state, today, sideVars>>

\* api/lead_receiver.py do_POST -> create_lead_from_zapier -> create_lead.
\* The request body is bad JSON, JSON without name, phone or email, or JSON
\* with a name and a phone.
Payloads == {"invalid_json", "no_contact", "name_phone"}

WebhookPost ==
    \E body \in Payloads, db \in BOOLEAN :
        IF body = "name_phone" /\ db /\ FreeIds # {}
        THEN \E p \in FreeIds :
                /\ create_lead(p)
                /\ lastOp' = Op("WebhookPost", 0, p, "", "none", TRUE, FALSE, 1, 0)
        ELSE /\ ~(body = "name_phone" /\ db)
             /\ lastOp' = Op("WebhookPost", 0, NoProject, "", "none", FALSE, FALSE, 0, 0)
             /\ UNCHANGED <<projects, commissions, production_logistics, session_state, today, sideVars>>

\* views/dashboard.py render_smart_intake_dialog "Save Lead"
SmartIntakeSave(s) ==
    /\ IsDashboard(session_state[s].page)
    /\ \E p \in FreeIds :
        /\ create_lead(p)
        /\ lastOp' = Op("SmartIntakeSave", s, p, "", "none", TRUE, FALSE, 0, 0)

\* views/migration_util.py create_migrated_project
ImportMigrated ==
    \E p \in FreeIds :
        /\ projects' = [projects EXCEPT ![p] = NewRow("MIGRATED")]
        /\ lastOp' = Op("ImportMigrated", 0, p, "", "none", TRUE, FALSE, 0, 0)
        /\ UNCHANGED <<commissions, production_logistics, session_state, today, sideVars>>

(***************************************************************************)
(* Navigation                                                              *)
(***************************************************************************)
Nav(s, page, p) ==
    /\ session_state' = [session_state EXCEPT ![s].page = page, ![s].current = p]
    /\ lastOp' = Op("Nav", s, NoProject, "", "none", TRUE, FALSE, 0, 0)
    /\ UNCHANGED <<projects, commissions, production_logistics, today, sideVars>>

\* dashboard.py render_new_leads: the lead's name button
OpenLeadDetail(s, p) ==
    /\ IsDashboard(session_state[s].page)
    /\ p \in get_new_leads
    /\ Nav(s, "lead_detail", p)

\* dashboard.py / project_tiles.py: every list row opens project_detail
OpenProjectDetail(s, p) ==
    /\ IsDashboard(session_state[s].page)
    /\ projects[p].exists
    /\ Nav(s, "project_detail", p)

\* "Back" buttons of lead_detail.py and project_detail.py
BackToDashboard(s) ==
    /\ ~IsDashboard(session_state[s].page)
    /\ session_state' = [session_state EXCEPT ![s].page = "Dashboard"]
    /\ lastOp' = Op("Nav", s, NoProject, "", "none", TRUE, FALSE, 0, 0)
    /\ UNCHANGED <<projects, commissions, production_logistics, today, sideVars>>

Tick ==
    /\ today < MaxDay
    /\ today' = today + 1
    /\ lastOp' = Op("Tick", 0, NoProject, "", "none", TRUE, FALSE, 0, 0)
    /\ UNCHANGED <<projects, commissions, production_logistics, session_state, sideVars>>

(***************************************************************************)
(* views/lead_detail.py: the lead page, shown for current_lead_id whatever *)
(* the status of that project is                                           *)
(***************************************************************************)
OnLeadPage(s, p) ==
    /\ session_state[s].page = "lead_detail"
    /\ session_state[s].current = p
    /\ projects[p].exists

Sent(sent) == IF sent THEN "sent" ELSE "failed"
N(b) == IF b THEN 1 ELSE 0

\* "Call" button: update_lead_status(lead_id, "Block A")
LeadCall(s, p) ==
    /\ OnLeadPage(s, p)
    /\ projects' = update_lead_status(projects, p, "Block A")
    /\ lastOp' = Op("LeadCall", s, p, StatusOf(p), "none", TRUE, FALSE, 0, 0)
    /\ UNCHANGED <<commissions, production_logistics, session_state, today, sideVars>>

\* "Save Note" button: add_lead_note(lead_id, note)
LeadSaveNote(s, p) ==
    /\ OnLeadPage(s, p)
    /\ projects' = add_lead_note(projects, p)
    /\ lastOp' = Op("LeadSaveNote", s, p, StatusOf(p), "none", TRUE, FALSE, 1, 0)
    /\ UNCHANGED <<commissions, production_logistics, session_state, today, sideVars>>

\* "Send Email" button of lead_detail.render_lead_email_dialog:
\*   success = send_email(...)   -- a (bool, message) pair, always truthy
\*   if success: update_lead_status(...); add_lead_note(...)
LeadSendEmail(s, p) ==
    /\ OnLeadPage(s, p)
    /\ \E sent \in BOOLEAN :
        /\ projects' = add_lead_note(update_lead_status(projects, p, "Block A"), p)
        /\ lastOp' = Op("LeadSendEmail", s, p, StatusOf(p), Sent(sent), TRUE, FALSE, 1, 0)
    /\ UNCHANGED <<commissions, production_logistics, session_state, today, sideVars>>

\* "Mark Text Sent" button of lead_detail.render_lead_text_dialog
LeadMarkTextSent(s, p) ==
    /\ OnLeadPage(s, p)
    /\ projects' = add_lead_note(update_lead_status(projects, p, "Block A"), p)
    /\ lastOp' = Op("LeadMarkTextSent", s, p, StatusOf(p), "none", TRUE, FALSE, 1, 0)
    /\ UNCHANGED <<commissions, production_logistics, session_state, today, sideVars>>

(***************************************************************************)
(* views/dashboard.py: hot-lead popup, card and dialogs, rendered for the  *)
(* rows of get_new_leads() only                                            *)
(***************************************************************************)
OnDashboardLead(s, p) ==
    /\ IsDashboard(session_state[s].page)
    /\ p \in get_new_leads

\* "Call" of render_hot_lead_popup / render_hot_lead_card
HotLeadCall(s, p) ==
    /\ OnDashboardLead(s, p)
    /\ projects' = update_lead_status(projects, p, "Block A")
    /\ lastOp' = Op("HotLeadCall", s, p, StatusOf(p), "none", TRUE, FALSE, 1, 0)
    /\ UNCHANGED <<commissions, production_logistics, session_state, today, sideVars>>

\* "Send Email" of dashboard.render_lead_email_dialog:
\*   success, message = send_email(...); if success: update_lead_status(...)
HotLeadSendEmail(s, p) ==
    /\ OnDashboardLead(s, p)
    /\ \E sent \in BOOLEAN :
        /\ projects' = IF sent THEN update_lead_status(projects, p, "Block A") ELSE projects
        /\ lastOp' = Op("HotLeadSendEmail", s, p, StatusOf(p), Sent(sent), sent, FALSE,
                        N(sent), 0)
    /\ UNCHANGED <<commissions, production_logistics, session_state, today, sideVars>>

\* "SMS Sent" of dashboard.render_lead_text_dialog
HotLeadTextSent(s, p) ==
    /\ OnDashboardLead(s, p)
    /\ projects' = update_lead_status(projects, p, "Block A")
    /\ lastOp' = Op("HotLeadTextSent", s, p, StatusOf(p), "none", TRUE, FALSE, 1, 0)
    /\ UNCHANGED <<commissions, production_logistics, session_state, today, sideVars>>

(***************************************************************************)
(* views/project_detail.py: the project page, shown for                    *)
(* current_project_id; every run re-reads the row                          *)
(***************************************************************************)
OnProjectPage(s, p) ==
    /\ session_state[s].page = "project_detail"
    /\ session_state[s].current = p
    /\ projects[p].exists

is_focus_mode(p) == status_norm2(p) \in focus_mode_statuses

\* what render_block_b_design_loop returns
block_b_returns(s, p) ==
    \/ projects[p].no_design_required
    \/ projects[p].design_proof_drive_id # ""
    \/ session_state[s].design_uploaded[p]

\* the pricing gate left open for every session and project
design_uploaded_always(s, p) == TRUE

\* design_uploaded = render_block_b_design_loop(...)
\* if is_focus_mode: design_uploaded = True
design_uploaded(s, p) ==
    IF is_focus_mode(p) THEN TRUE ELSE block_b_returns(s, p)

\* Block B checkbox "No Design Required": update_no_design_required
ToggleNoDesignRequired(s, p) ==
    /\ OnProjectPage(s, p)
    /\ projects' = [projects EXCEPT ![p].no_design_required = ~projects[p].no_design_required]
    /\ lastOp' = Op("ToggleNoDesignRequired", s, p, StatusOf(p), "none", TRUE, FALSE, 0, 0)
    /\ UNCHANGED <<commissions, production_logistics, session_state, today, sideVars>>

\* Block B file uploader "Upload Design Proof": the file stays in the
\* widget, st.session_state[design_key] = True, nothing is stored
UploadDesignFile(s, p) ==
    /\ s \in Uploaders
    /\ OnProjectPage(s, p)
    /\ ~projects[p].no_design_required
    /\ projects[p].design_proof_drive_id = ""
    /\ ~session_state[s].design_uploaded[p]
    /\ session_state' = [session_state EXCEPT ![s].design_uploaded[p] = TRUE]
    /\ lastOp' = Op("UploadDesignFile", s, p, StatusOf(p), "none", TRUE, FALSE, 0, 0)
    /\ UNCHANGED <<projects, commissions, production_logistics, today, sideVars>>

\* migration_util.assign_pdf_to_slot: update_design_proof, the only writer
\* of design_proof_drive_id
AssignDesignProof(p) ==
    /\ projects[p].exists
    /\ projects[p].design_proof_drive_id = ""
    /\ projects' = [projects EXCEPT ![p].design_proof_drive_id = "drive_id"]
    /\ lastOp' = Op("AssignDesignProof", 0, p, StatusOf(p), "none", TRUE, FALSE, 0, 0)
    /\ UNCHANGED <<commissions, production_logistics, session_state, today, sideVars>>

\* render_design_approval_dialog "Send": shown while Block B reaches its
\* email controls and the status is not yet "design or higher"
SendDesignEmail(s, p) ==
    /\ OnProjectPage(s, p)
    /\ ~projects[p].no_design_required
    /\ status_norm2(p) \notin design_or_higher_statuses
    /\ \E sent \in BOOLEAN :
        LET write == sent /\ status_lower(p) \in design_early_statuses
        IN  /\ projects' = IF write THEN update_project_status(projects, p, "Design")
                           ELSE projects
            /\ lastOp' = Op("SendDesignEmail", s, p, StatusOf(p), Sent(sent), write, FALSE,
                            N(sent), N(sent))
    /\ UNCHANGED <<commissions, production_logistics, session_state, today, sideVars>>

\* render_pricing_approval_dialog "Send": Block C returns before its
\* controls unless design_uploaded
SendPricingEmail(s, p) ==
    /\ OnProjectPage(s, p)
    /\ design_uploaded(s, p)
    /\ \E sent \in BOOLEAN :
        LET write == sent /\ status_lower(p) \in pricing_early_statuses
        IN  /\ projects' = IF write THEN update_project_status(projects, p, "Quoting")
                           ELSE projects
            /\ lastOp' = Op("SendPricingEmail", s, p, StatusOf(p), Sent(sent), write, FALSE,
                            N(sent), N(sent))
    /\ UNCHANGED <<commissions, production_logistics, session_state, today, sideVars>>

\* render_proposal_approval_dialog "Send": a touch and a history row on
\* success, no statement on the status
SendProposalEmail(s, p) ==
    /\ OnProjectPage(s, p)
    /\ design_uploaded(s, p)
    /\ \E sent \in BOOLEAN :
        lastOp' = Op("SendProposalEmail", s, p, StatusOf(p), Sent(sent), sent, FALSE,
                     N(sent), N(sent))
    /\ UNCHANGED <<projects, commissions, production_logistics, session_state, today, sideVars>>

AlreadySentOf == [st \in StoredStatuses \cup {""} |->
                     \/ contains(UpperOf[st], lit_PROPOSAL_SENT)
                     \/ contains(UpperOf[st], lit_AWAITING_CUSTOMER)]

\* "PROPOSAL SENT" in status.upper() or "AWAITING CUSTOMER" in status.upper()
already_sent(p) == AlreadySentOf[StatusOf(p)]

\* Block C "Proposal Already Sent (Legacy)":
\* update_project_status_with_note(project_id, "PROPOSAL SENT - AWAITING CUSTOMER", note)
LegacyProposalSent(s, p) ==
    /\ OnProjectPage(s, p)
    /\ design_uploaded(s, p)
    /\ ~already_sent(p)
    /\ projects' = update_project_status(projects, p, "PROPOSAL SENT - AWAITING CUSTOMER")
    /\ lastOp' = Op("LegacyProposalSent", s, p, StatusOf(p), "none", TRUE, FALSE, 0, 0)
    /\ UNCHANGED <<commissions, production_logistics, session_state, today, sideVars>>

(***************************************************************************)
(* project_detail.py Block D: deposit and production lock                  *)
(***************************************************************************)
\* render_block_d_deposit_handoff returns before its controls once
\* deposit_received_date is set
BlockDOpen(s, p) ==
    /\ OnProjectPage(s, p)
    /\ projects[p].deposit_received_date = NULL

\* "Notify Bruno: Request Deposit Invoice": both branches of `if success`
\* call update_deposit_stage(project_id, "invoice_requested", True)
RequestDepositInvoice(s, p) ==
    /\ BlockDOpen(s, p)
    /\ ~projects[p].deposit_invoice_requested
    /\ \E sent \in BOOLEAN :
        /\ projects' = [projects EXCEPT ![p].deposit_invoice_requested = TRUE]
        /\ lastOp' = Op("RequestDepositInvoice", s, p, StatusOf(p), Sent(sent), TRUE, FALSE,
                        0, N(sent))
    /\ UNCHANGED <<commissions, production_logistics, session_state, today, sideVars>>

\* "Send Deposit Invoice to Customer"
SendDepositInvoice(s, p) ==
    /\ BlockDOpen(s, p)
    /\ projects[p].deposit_invoice_requested
    /\ ~projects[p].deposit_invoice_sent
    /\ \E sent \in BOOLEAN :
        /\ projects' = [projects EXCEPT ![p].deposit_invoice_sent = TRUE]
        /\ lastOp' = Op("SendDepositInvoice", s, p, StatusOf(p), Sent(sent), TRUE, FALSE,
                        0, N(sent))
    /\ UNCHANGED <<commissions, production_logistics, session_state, today, sideVars>>

\* The deposit form is opened by "Deposit Received & Verified", which is
\* enabled by deposit_invoice_sent
DepositFormOpen(s, p) ==
    /\ BlockDOpen(s, p)
    /\ projects[p].deposit_invoice_sent

\* set_master_spec: the UPDATE, then add_project_history(project_id, text)
\* with two of its three required arguments, which raises TypeError
set_master_spec(rows, p, file_id) == [rows EXCEPT ![p].master_spec_file_id = file_id]

\* set_signed_spec: the same shape
set_signed_spec(rows, p) == [rows EXCEPT ![p].signed_spec_file_id = "save_path"]

\* lock_production: UPDATE projects SET production_locked = TRUE,
\* status = 'ACTIVE PRODUCTION'; then the same two-argument call
lock_production(rows, p) ==
    [rows EXCEPT ![p].production_locked = TRUE, ![p].status = "ACTIVE PRODUCTION"]

\* the files of the "Select Golden Proof" selectbox: a proposal, a photo
MasterFiles == {"proposal_1", "photo_1"}

\* the selectbox choices of one click.  No handler reads which file the id
\* names, so the two files are mirror images of each other: the first lock
\* takes the proposal, and a lock over a stored id may take either file
selectable_files(p) ==
    IF projects[p].master_spec_file_id = "" THEN {"proposal_1"} ELSE MasterFiles

\* the button offered whether or not a master spec is stored
lock_master_always_offered(p) == TRUE

\* "Lock as Master" is rendered only if not master_spec_file_id
lock_master_offered(p) == projects[p].master_spec_file_id = ""

\* "Lock as Master"
LockMasterSpec(s, p) ==
    /\ DepositFormOpen(s, p)
    /\ lock_master_offered(p)
    /\ \E selected_file \in selectable_files(p) :
          projects' = set_master_spec(projects, p, selected_file)
    /\ lastOp' = Op("LockMasterSpec", s, p, StatusOf(p), "none", TRUE, TRUE, 0, 0)
    /\ UNCHANGED <<commissions, production_logistics, session_state, today, sideVars>>

\* "Save Signed Spec" (the TypeError is caught by the handler's except)
SaveSignedSpec(s, p) ==
    /\ DepositFormOpen(s, p)
    /\ projects[p].signed_spec_file_id = ""
    /\ projects' = set_signed_spec(projects, p)
    /\ lastOp' = Op("SaveSignedSpec", s, p, StatusOf(p), "none", TRUE, TRUE, 0, 0)
    /\ UNCHANGED <<commissions, production_logistics, session_state, today, sideVars>>

\* the UPDATE without its deposit_amount column
mark_deposit_received_no_amount(rows, p, deposit_date, deposit_amount) ==
    [rows EXCEPT ![p].deposit_received_date = deposit_date,
                 ![p].status = "ACTIVE PRODUCTION"]

\* mark_deposit_received: one transaction on projects and commissions
mark_deposit_received_projects(rows, p, deposit_date, deposit_amount) ==
    [rows EXCEPT ![p].deposit_received_date = deposit_date,
                 ![p].deposit_amount = deposit_amount,
                 ![p].status = "ACTIVE PRODUCTION"]

\* the upsert without its deposit_received_date column
mark_deposit_received_commissions_no_date(rows, p, deposit_date, deposit_amount) ==
    [rows EXCEPT ![p].exists = TRUE,
                 ![p].deposit_amount = deposit_amount]

\* mark_deposit_received: INSERT INTO commissions ... ON CONFLICT DO UPDATE
mark_deposit_received_commissions(rows, p, deposit_date, deposit_amount) ==
    [rows EXCEPT ![p].exists = TRUE,
                 ![p].deposit_received_date = deposit_date,
                 ![p].deposit_amount = deposit_amount]

\* the button always enabled
btn_never_disabled(p) == FALSE

\* btn_disabled = not has_signed_spec or not has_master_spec
btn_disabled(p) ==
    \/ projects[p].signed_spec_file_id = ""
    \/ projects[p].master_spec_file_id = ""

\* "Confirm Deposit & Lock Production", disabled = btn_disabled:
\*   success = mark_deposit_received(...)
\*   if success: lock_production(...); add_project_note(...); add_project_touch(...)
\* When lock_production's UPDATE commits, its history call raises and the
\* note and the touch are not reached.
ConfirmDeposit(s, p) ==
    /\ DepositFormOpen(s, p)
    /\ ~btn_disabled(p)
    /\ \E deposit_date \in Days, deposit_amt \in Amounts, db \in BOOLEAN, dbLock \in BOOLEAN :
        LET r1 == mark_deposit_received_projects(projects, p, deposit_date, deposit_amt)
            r2 == IF dbLock THEN lock_production(r1, p) ELSE r1
        IN  /\ projects' = IF db THEN r2 ELSE projects
            /\ commissions' = IF db
                              THEN mark_deposit_received_commissions(commissions, p,
                                                                      deposit_date, deposit_amt)
                              ELSE commissions
            /\ lastOp' = OpWith("ConfirmDeposit", s, p, StatusOf(p), db, db /\ dbLock,
                                0, N(db /\ ~dbLock), <<deposit_date, deposit_amt>>)
    /\ UNCHANGED <<production_logistics, session_state, today, sideVars>>

(***************************************************************************)
(* project_detail.py Blocks E and G: logistics and closeout                *)
(***************************************************************************)
\* [s.lower().replace(" ", "_") for s in production_statuses] of Block E
block_e_production == { replace(lower(x), " ", "_") : x \in logistics_production_statuses }

block_e_is_production(p) == status_norm1(p) \in block_e_production

\* Block E "Target Installation Date": save_production_logistics(target_date=...)
SetInstallDate(s, p) ==
    /\ OnProjectPage(s, p)
    /\ block_e_is_production(p)
    /\ \E target_date \in Days :
        /\ target_date # production_logistics[p]
        /\ production_logistics' = [production_logistics EXCEPT ![p] = target_date]
    /\ lastOp' = Op("SetInstallDate", s, p, StatusOf(p), "none", TRUE, FALSE, 0, 1)
    /\ UNCHANGED <<projects, commissions, session_state, today, sideVars>>

\* [s.lower().replace(" ", "_") for s in production_statuses] of Block G
block_g_production == { replace(lower(x), " ", "_") : x \in closeout_production_statuses }

block_g_is_production(p) == status_norm1(p) \in block_g_production

block_g_is_completed(p) == status_norm1(p) = lit_completed

\* the comparison taken as "not before today"
closeout_new_status_from_today(install_date, now) ==
    IF install_date # NULL /\ install_date >= now THEN "Confirmed" ELSE "completed"

\* close_project_with_final_payment: the status it writes
closeout_new_status(install_date, now) ==
    IF install_date # NULL /\ install_date > now THEN "Confirmed" ELSE "completed"

\* close_project_with_final_payment: UPDATE commissions when the row exists,
\* INSERT with total_value = amount when it does not
closeout_commission(row, amount, now) ==
    IF row.exists
    THEN [row EXCEPT !.total_amount_received = amount, !.final_payment_date = now]
    ELSE [NoCommission EXCEPT !.exists = TRUE, !.total_value = amount,
                              !.total_amount_received = amount, !.final_payment_date = now]

\* Block G "Final Balance Received - Close Project"
CloseProject(s, p) ==
    /\ OnProjectPage(s, p)
    /\ block_g_is_production(p) \/ block_g_is_completed(p)
    /\ ~(block_g_is_completed(p) /\ commissions[p].final_payment_date # NULL)
    /\ \E final_amount \in Amounts, db \in BOOLEAN :
        /\ projects' = IF db
                       THEN update_project_status(projects, p,
                                closeout_new_status(production_logistics[p], today))
                       ELSE projects
        /\ commissions' = IF db
                          THEN [commissions EXCEPT
                                  ![p] = closeout_commission(commissions[p], final_amount, today)]
                          ELSE commissions
        /\ lastOp' = OpWith("CloseProject", s, p, StatusOf(p), db, FALSE, 0, N(db),
                            <<final_amount>>)
    /\ UNCHANGED <<production_logistics, session_state, today, sideVars>>

(***************************************************************************)
(* project_detail.py: manual closing, cold storage; dashboard.py: victory  *)
(* lap                                                                     *)
(***************************************************************************)
\* the comparison made on status.lower() alone
show_lost_button_lower(p) == status_lower(p) \notin lost_button_hidden_statuses

\* render_project_identity_header: show_lost_button
show_lost_button(p) == status_norm1(p) \notin lost_button_hidden_statuses

\* "Project Lost" -> render_project_lost_dialog "Confirm Lost":
\* mark_project_lost sets status = 'Closed - Lost'; page = "dashboard"
ProjectLost(s, p) ==
    /\ OnProjectPage(s, p)
    /\ show_lost_button(p)
    /\ projects' = update_project_status(projects, p, "Closed - Lost")
    /\ session_state' = [session_state EXCEPT ![s].page = "Dashboard"]
    /\ lastOp' = Op("ProjectLost", s, p, StatusOf(p), "none", TRUE, FALSE, 1, 0)
    /\ UNCHANGED <<commissions, production_logistics, today, sideVars>>

\* the first early return alone
show_won_button_without_deposit(p) == status_norm1(p) \notin decision_hidden_statuses

\* render_project_decision: the two early returns
show_won_button(p) ==
    /\ status_norm1(p) \notin decision_hidden_statuses
    /\ \/ projects[p].deposit_received_date # NULL
       \/ status_norm1(p) \in decision_production_statuses

\* "Project Won": mark_project_won sets status = 'Closed - Won'
ProjectWon(s, p) ==
    /\ OnProjectPage(s, p)
    /\ show_won_button(p)
    /\ projects' = update_project_status(projects, p, "Closed - Won")
    /\ session_state' = [session_state EXCEPT ![s].page = "Dashboard"]
    /\ lastOp' = Op("ProjectWon", s, p, StatusOf(p), "none", TRUE, FALSE, 1, 0)
    /\ UNCHANGED <<commissions, production_logistics, today, sideVars>>

\* render_project_footer: is_archived = status.lower() == "archived"
is_archived(p) == status_lower(p) = lit_archived

\* archive_project: UPDATE projects SET status = 'Archived' WHERE id = :id
archive_project(rows, p) == [rows EXCEPT ![p].status = "Archived"]

\* a restore that puts the project back among the new leads
restore_project_as_new(rows, p) == [rows EXCEPT ![p].status = "New"]

\* restore_project: UPDATE projects SET status = 'Block A' WHERE id = :id
restore_project(rows, p) == [rows EXCEPT ![p].status = "Block A"]

\* "Move to Cold Storage": archive_project sets status = 'Archived'
ArchiveProject(s, p) ==
    /\ OnProjectPage(s, p)
    /\ ~is_archived(p)
    /\ projects' = archive_project(projects, p)
    /\ session_state' = [session_state EXCEPT ![s].page = "Dashboard"]
    /\ lastOp' = Op("ArchiveProject", s, p, StatusOf(p), "none", TRUE, FALSE, 1, 0)
    /\ UNCHANGED <<commissions, production_logistics, today, sideVars>>

\* "Restore to Active": restore_project sets status = 'Block A'
RestoreProject(s, p) ==
    /\ OnProjectPage(s, p)
    /\ is_archived(p)
    /\ projects' = restore_project(projects, p)
    /\ lastOp' = Op("RestoreProject", s, p, StatusOf(p), "none", TRUE, FALSE, 1, 0)
    /\ UNCHANGED <<commissions, production_logistics, session_state, today, sideVars>>

\* the query without its status filter
get_victory_lap_items_any_status ==
    { p \in ProjectIds :
        /\ projects[p].exists
        /\ production_logistics[p] # NULL
        /\ production_logistics[p] = today - 1 }

\* get_victory_lap_items: target_installation_date = CURRENT_DATE - 1 day
\* AND LOWER(status) NOT IN (...)
get_victory_lap_items ==
    { p \in ProjectIds :
        /\ projects[p].exists
        /\ production_logistics[p] # NULL
        /\ production_logistics[p] = today - 1
        /\ status_lower(p) \notin victory_lap_excluded }

\* render_victory_lap_dialog "Send Email": on success
\* update_project_status(project_id, "Completed")
VictoryLapSend(s, p) ==
    /\ IsDashboard(session_state[s].page)
    /\ p \in get_victory_lap_items
    /\ \E sent \in BOOLEAN :
        /\ projects' = IF sent THEN update_project_status(projects, p, "Completed")
                       ELSE projects
        /\ lastOp' = Op("VictoryLapSend", s, p, StatusOf(p), Sent(sent), sent, FALSE,
                        2 * N(sent), N(sent))
    /\ UNCHANGED <<commissions, production_logistics, session_state, today, sideVars>>

(***************************************************************************)
(* Two sessions acting on the same project, statement by statement.  Each  *)
(* session runs one handler: "call" (update_lead_status), "note"           *)
(* (add_lead_note), "design" or "pricing" (the dialogs, which read the     *)
(* status with get_project_by_id and then call update_project_status).     *)
(* The database applies each UPDATE as one statement.                      *)
(***************************************************************************)
Jobs == {"call", "note", "design", "pricing"}
RaceProject == "p1"
RaceStatuses == {"New", "Design"}

\* the UPDATE of a "call" run
RaceCall(s) ==
    /\ workers[s].job = "call"
    /\ workers[s].pc = "ready"
    /\ projects' = update_lead_status(projects, RaceProject, "Block A")
    /\ last_update' = "Block A"
    /\ workers' = [workers EXCEPT ![s].pc = "done"]
    /\ UNCHANGED <<commissions, production_logistics, session_state, today, lastOp, deleteVars, ledgerVars, toolVars>>

\* the guarded UPDATE of a "note" run: it matches the row only if the
\* status is 'New' when the statement runs
RaceNote(s) ==
    /\ workers[s].job = "note"
    /\ workers[s].pc = "ready"
    /\ projects' = add_lead_note(projects, RaceProject)
    /\ last_update' = IF StatusOf(RaceProject) = "New" THEN "Block A" ELSE last_update
    /\ workers' = [workers EXCEPT ![s].pc = "done"]
    /\ UNCHANGED <<commissions, production_logistics, session_state, today, lastOp, deleteVars, ledgerVars, toolVars>>

\* project = get_proj(project_id); current_status = project["status"].lower()
RaceRead(s) ==
    /\ workers[s].job \in {"design", "pricing"}
    /\ workers[s].pc = "ready"
    /\ workers' = [workers EXCEPT ![s].pc = "read", ![s].seen = StatusOf(RaceProject)]
    /\ UNCHANGED <<mainVars, last_update, deleteVars, ledgerVars, toolVars>>

\* if current_status in [...]: update_project_status(project_id, ...)
RaceWrite(s) ==
    /\ workers[s].pc = "read"
    /\ LET early == IF workers[s].job = "design" THEN design_early_statuses
                    ELSE pricing_early_statuses
           new_status == IF workers[s].job = "design" THEN "Design" ELSE "Quoting"
       IN  IF LowerOf[workers[s].seen] \in early
           THEN /\ projects' = update_project_status(projects, RaceProject, new_status)
                /\ last_update' = new_status
           ELSE UNCHANGED <<projects, last_update>>
    /\ workers' = [workers EXCEPT ![s].pc = "done"]
    /\ UNCHANGED <<commissions, production_logistics, session_state, today, lastOp, deleteVars, ledgerVars, toolVars>>

RaceInit ==
    /\ ToolsIdleExcept("none")
    /\ \E status \in RaceStatuses :
          /\ projects = [p \in ProjectIds |-> IF p = RaceProject THEN NewRow(status) ELSE NoRow]
          /\ last_update = status
    /\ commissions = [p \in ProjectIds |-> NoCommission]
    /\ production_logistics = [p \in ProjectIds |-> NULL]
    /\ session_state = [s \in Sessions |-> NoSession]
    /\ today = 1
    /\ lastOp = Op("init", 0, NoProject, "", "none", TRUE, FALSE, 0, 0)
    /\ tables = NoRows
    /\ delete_call = IdleCall
    /\ workers \in [Sessions -> { [ job |-> j, pc |-> "ready", seen |-> "" ] : j \in Jobs }]
    /\ ledger = NoLedger
    /\ period_groups = NoGrouping

RaceNext == \E s \in Sessions : RaceCall(s) \/ RaceNote(s) \/ RaceRead(s) \/ RaceWrite(s)

RaceSpec == RaceInit /\ [][RaceNext]_vars

(***************************************************************************)
(* views/ledger.py and get_paid_commissions_for_ledger: the commission     *)
(* ledger.  A date is the integer yyyymmdd, NULL when the column is null;  *)
(* an amount or a rate is a whole number, SqlNull when the column is null. *)
(***************************************************************************)
SqlNull == -1
DefaultRate == 10

LedgerDates == {NULL, 20250110, 20250120}
LedgerAmounts == {SqlNull, 0, 100}
LedgerTotals == {SqlNull, 0, 100, 200}
LedgerRates == {SqlNull, 0, 10, 20}

\* a projects row joined with its commissions row; listed says that the
\* project is of the tenant and has is_active_v3 = TRUE
LedgerRows ==
    [ listed : BOOLEAN, deposit_received_date : LedgerDates, deposit_amount : LedgerAmounts,
      final_payment_date : LedgerDates, total_amount_received : LedgerTotals,
      commission_rate : LedgerRates ]

\* SQL COALESCE(v, d) and GREATEST(a, b)
COALESCE(v, d) == IF v = SqlNull THEN d ELSE v
GREATEST(a, b) == IF a >= b THEN a ELSE b

\* Python `v or d` on a number or None
or_default(v, d) == IF v = SqlNull \/ v = 0 THEN d ELSE v

\* WHERE of deposit_payments
deposit_listed(row) ==
    /\ row.listed
    /\ row.deposit_received_date # NULL

\* the WHERE of final_payments without its "> 0" condition
final_payment_listed_unpaid(row) ==
    /\ row.listed
    /\ row.final_payment_date # NULL
    /\ COALESCE(row.total_amount_received, 0) >= COALESCE(row.deposit_amount, 0)

\* WHERE of final_payments
final_payment_listed(row) ==
    /\ row.listed
    /\ row.final_payment_date # NULL
    /\ COALESCE(row.total_amount_received, 0) >= COALESCE(row.deposit_amount, 0)
    /\ COALESCE(row.total_amount_received, 0) > 0

\* the SELECT list of deposit_payments
deposit_event(row) ==
    [ payment_type |-> "deposit",
      payment_amount |-> COALESCE(row.deposit_amount, 0),
      commission_rate |-> COALESCE(row.commission_rate, DefaultRate),
      payment_date |-> row.deposit_received_date ]

\* the SELECT list of final_payments
final_event(row) ==
    [ payment_type |-> "final",
      payment_amount |-> GREATEST(0, COALESCE(row.total_amount_received, 0)
                                       - COALESCE(row.deposit_amount, 0)),
      commission_rate |-> COALESCE(row.commission_rate, DefaultRate),
      payment_date |-> row.final_payment_date ]

\* get_paid_commissions_for_ledger: UNION ALL ... ORDER BY payment_date DESC
get_paid_commissions_for_ledger(row) ==
    LET d == IF deposit_listed(row) THEN <<deposit_event(row)>> ELSE <<>>
        f == IF final_payment_listed(row) THEN <<final_event(row)>> ELSE <<>>
    IN  IF d # <<>> /\ f # <<>> /\ f[1].payment_date > d[1].payment_date
        THEN f \o d ELSE d \o f

\* float(c.get("payment_amount") or 0) * float(c.get("commission_rate") or 10) / 100
commission_earned(c) ==
    (or_default(c.payment_amount, 0) * or_default(c.commission_rate, DefaultRate)) \div 100

RECURSIVE SumSeq(_)
SumSeq(seq) == IF seq = <<>> THEN 0 ELSE Head(seq) + SumSeq(Tail(seq))

\* render_paid_commissions_tab: commissions = get_paid_commissions_for_ledger()
LedgerQuery ==
    /\ ledger.pc = "start"
    /\ ledger' = [ledger EXCEPT !.pc = "queried",
                                !.events = get_paid_commissions_for_ledger(ledger.row)]
    /\ UNCHANGED <<mainVars, deleteVars, raceVars, period_groups, toolVars>>

\* render_paid_commissions_tab: total_commission and the commission_earned
\* of each payment row
LedgerRender ==
    /\ ledger.pc = "queried"
    /\ LET earned == [i \in 1..Len(ledger.events) |-> commission_earned(ledger.events[i])]
       IN  ledger' = [ledger EXCEPT !.pc = "shown", !.shown = earned, !.total = SumSeq(earned)]
    /\ UNCHANGED <<mainVars, deleteVars, raceVars, period_groups, toolVars>>

LedgerInit ==
    /\ MainInit
    /\ ToolsIdleExcept("none")
    /\ tables = NoRows
    /\ delete_call = IdleCall
    /\ workers = [s \in Sessions |-> NoWorker]
    /\ last_update = ""
    /\ period_groups = NoGrouping
    /\ \E row \in LedgerRows : ledger = [NoLedger EXCEPT !.pc = "start", !.row = row]

LedgerNext == LedgerQuery \/ LedgerRender

LedgerSpec == LedgerInit /\ [][LedgerNext]_vars

(***************************************************************************)
(* views/ledger.py: group_commissions_by_period                            *)
(***************************************************************************)
GroupYears == {2024, 2025}
GroupMonths == {1, 12}
GroupDays == {1, 15, 16, 31}
GroupDates ==
    {NULL} \cup { y * 10000 + m * 100 + d : y \in GroupYears, m \in GroupMonths, d \in GroupDays }

\* payment_date.year, .month, .day
YearOf(payment_date) == payment_date \div 10000
MonthOf(payment_date) == (payment_date \div 100) % 100
DayOf(payment_date) == payment_date % 100

\* the 15th counted with the second half of the month
get_pay_period_info_before_15th(payment_date) ==
    IF DayOf(payment_date) < 15 THEN 1 ELSE 2

\* get_pay_period_info: the period number it returns
get_pay_period_info(payment_date) ==
    IF DayOf(payment_date) <= 15 THEN 1 ELSE 2

\* key = (year, month, period_num)
period_key(comm) ==
    << YearOf(comm.payment_date), MonthOf(comm.payment_date),
       get_pay_period_info(comm.payment_date) >>

\* Python's order on tuples of three numbers
KeyLess(a, b) ==
    \/ a[1] < b[1]
    \/ a[1] = b[1] /\ a[2] < b[2]
    \/ a[1] = b[1] /\ a[2] = b[2] /\ a[3] < b[3]

\* sorted(grouped.keys(), reverse=True)
RECURSIVE sorted_reverse(_)
sorted_reverse(keys) ==
    IF keys = {} THEN <<>>
    ELSE LET top == CHOOSE k \in keys : \A o \in keys : ~KeyLess(k, o)
         IN  <<top>> \o sorted_reverse(keys \ {top})

\* group_commissions_by_period: rows without a payment_date are skipped,
\* the others appended to the group of their key in the order met
group_commissions_by_period(comms) ==
    LET dated == SelectSeq(comms, LAMBDA c : c.payment_date # NULL)
        keys == { period_key(dated[i]) : i \in 1..Len(dated) }
        sorted_keys == sorted_reverse(keys)
    IN  [ g \in 1..Len(sorted_keys) |->
            [ key |-> sorted_keys[g],
              commissions |-> SelectSeq(dated, LAMBDA c : period_key(c) = sorted_keys[g]) ] ]

\* grouped = group_commissions_by_period(commissions)
GroupByPeriod ==
    /\ period_groups.pc = "start"
    /\ period_groups' =
          [period_groups EXCEPT !.pc = "grouped",
                                !.grouped = group_commissions_by_period(period_groups.commissions)]
    /\ UNCHANGED <<mainVars, deleteVars, raceVars, ledger, toolVars>>

GroupInit ==
    /\ MainInit
    /\ ToolsIdleExcept("none")
    /\ tables = NoRows
    /\ delete_call = IdleCall
    /\ workers = [s \in Sessions |-> NoWorker]
    /\ last_update = ""
    /\ ledger = NoLedger
    /\ \E dates \in [1..MaxEvents -> GroupDates] :
          period_groups =
              [NoGrouping EXCEPT !.pc = "start",
                  !.commissions = [i \in 1..MaxEvents |-> [id |-> i, payment_date |-> dates[i]]]]

GroupNext == GroupByPeriod

GroupSpec == GroupInit /\ [][GroupNext]_vars

(***************************************************************************)
(* views/ledger.py: get_report_period_info, get_report_period_commissions  *)
(***************************************************************************)
ReportYears == {2024, 2025}
ReportMonths == {1, 11, 12}
ReportDays == {1, 2, 15, 16, 17, 30}
\* today_mountain() on the day the ledger page is opened
ReportTodays ==
    { y * 10000 + m * 100 + d : y \in ReportYears, m \in ReportMonths, d \in ReportDays }
\* comm.get("payment_date"), NULL for a row without one
ReportDates == {NULL} \cup ReportTodays

\* calendar.monthrange(year, month)[1]
monthrange(year, month) ==
    IF month = 2
    THEN (IF year % 4 = 0 /\ (year % 100 # 0 \/ year % 400 = 0) THEN 29 ELSE 28)
    ELSE IF month \in {4, 6, 9, 11} THEN 30 ELSE 31

\* today.replace(day=1) - pd.Timedelta(days=1)
prev_month(date) ==
    IF MonthOf(date) = 1
    THEN (YearOf(date) - 1) * 10000 + 1200 + monthrange(YearOf(date) - 1, 12)
    ELSE YearOf(date) * 10000 + (MonthOf(date) - 1) * 100
            + monthrange(YearOf(date), MonthOf(date) - 1)

\* the 1st treated as any other day of the first half
get_report_period_info_no_rollover(date) ==
    IF DayOf(date) = 16
    THEN << YearOf(date), MonthOf(date), 1, 1, 15 >>
    ELSE IF DayOf(date) <= 15
         THEN << YearOf(date), MonthOf(date), 1, 1, 15 >>
         ELSE << YearOf(date), MonthOf(date), 2, 16, 31 >>

\* get_report_period_info: (year, month, period, start_day, end_day)
get_report_period_info(date) ==
    IF DayOf(date) = 16
    THEN << YearOf(date), MonthOf(date), 1, 1, 15 >>
    ELSE IF DayOf(date) = 1
         THEN << YearOf(prev_month(date)), MonthOf(prev_month(date)), 2, 16, 31 >>
         ELSE IF DayOf(date) <= 15
              THEN << YearOf(date), MonthOf(date), 1, 1, 15 >>
              ELSE << YearOf(date), MonthOf(date), 2, 16, 31 >>

\* get_report_period_commissions: rows without a payment_date are skipped
get_report_period_commissions(comms, date) ==
    LET info == get_report_period_info(date)
    IN  SelectSeq(comms, LAMBDA c :
            /\ c.payment_date # NULL
            /\ YearOf(c.payment_date) = info[1]
            /\ MonthOf(c.payment_date) = info[2]
            /\ info[4] <= DayOf(c.payment_date)
            /\ DayOf(c.payment_date) <= info[5])

\* report_commissions = get_report_period_commissions(commissions)
ReportFilter ==
    /\ report.pc = "start"
    /\ report' =
          [report EXCEPT !.pc = "filtered",
                         !.period = get_report_period_info(report.today),
                         !.filtered = get_report_period_commissions(report.commissions, report.today)]
    /\ ToolsUnchangedExcept("report")
    /\ UNCHANGED <<mainVars, deleteVars, raceVars, ledgerVars>>

ReportInit ==
    /\ MainInit
    /\ tables = NoRows
    /\ delete_call = IdleCall
    /\ workers = [s \in Sessions |-> NoWorker]
    /\ last_update = ""
    /\ ledger = NoLedger
    /\ period_groups = NoGrouping
    /\ ToolsIdleExcept("report")
    /\ \E date \in ReportTodays, dates \in [1..MaxReportRows -> ReportDates] :
          report =
              [NoReport EXCEPT !.pc = "start", !.today = date,
                  !.commissions = [i \in 1..MaxReportRows |-> [id |-> i, payment_date |-> dates[i]]]]

ReportNext == ReportFilter

ReportSpec == ReportInit /\ [][ReportNext]_vars

(***************************************************************************)
(* services/database_manager.py: calculate_business_days                   *)
(*                                                                         *)
(* A day is its date.toordinal(); ordinal 1 is a Monday, so weekday() is   *)
(* (ordinal - 1) % 7.  An argument is None, a date or a datetime.          *)
(***************************************************************************)
None == [ kind |-> "None", day |-> 0, hour |-> 0 ]
Ordinals == 1..MaxOrdinal
Hours == {9, 17}
DateArgs ==
    {None}
    \cup { [ kind |-> "date", day |-> d, hour |-> 0 ] : d \in Ordinals }
    \cup { [ kind |-> "datetime", day |-> d, hour |-> h ] : d \in Ordinals, h \in Hours }

\* date.weekday(): Monday is 0, Sunday is 6
weekday(day) == (day - 1) % 7

\* Saturday counted as a working day
is_business_day_with_saturday(day) == weekday(day) < 6

\* current.weekday() < 5
is_business_day(day) == weekday(day) < 5

\* if hasattr(x, 'date'): x = x.date()
to_date(arg) == arg.day

\* the while loop, counting from the day after from_date
RECURSIVE count_after_start(_, _, _)
count_after_start(current, to_day, counted) ==
    IF current + 1 < to_day
    THEN count_after_start(current + 1, to_day,
             IF is_business_day(current + 1) THEN counted + 1 ELSE counted)
    ELSE counted

\* while current < to_date: count current if it is a weekday, step one day
RECURSIVE count_business_days(_, _, _)
count_business_days(current, to_day, counted) ==
    IF current < to_day
    THEN count_business_days(current + 1, to_day,
             IF is_business_day(current) THEN counted + 1 ELSE counted)
    ELSE counted

calculate_business_days(from_date, to_date_arg) ==
    IF from_date = None \/ to_date_arg = None
    THEN 0
    ELSE count_business_days(to_date(from_date), to_date(to_date_arg), 0)

\* business_days = calculate_business_days(status_updated, today)
BusinessDaysCount ==
    /\ business_days.pc = "start"
    /\ business_days' =
          [business_days EXCEPT !.pc = "returned",
              !.result = calculate_business_days(business_days.from_date, business_days.to_date)]
    /\ ToolsUnchangedExcept("business_days")
    /\ UNCHANGED <<mainVars, deleteVars, raceVars, ledgerVars>>

BusinessDaysInit ==
    /\ MainInit
    /\ tables = NoRows
    /\ delete_call = IdleCall
    /\ workers = [s \in Sessions |-> NoWorker]
    /\ last_update = ""
    /\ ledger = NoLedger
    /\ period_groups = NoGrouping
    /\ ToolsIdleExcept("business_days")
    /\ \E from_date \in DateArgs, to_date_arg \in DateArgs :
          business_days = [ pc |-> "start", from_date |-> from_date,
                            to_date |-> to_date_arg, result |-> 0 ]

BusinessDaysNext == BusinessDaysCount

BusinessDaysSpec == BusinessDaysInit /\ [][BusinessDaysNext]_vars

(***************************************************************************)
(* services/database_manager.py: get_system_alerts, snooze_project_alert   *)
(*                                                                         *)
(* A timestamp is day * 100 + hour, the day as its ordinal; NULL is 0.     *)
(* The query is followed for one project row (is_active_v3 is TRUE on      *)
(* every row).  "Awaiting Deposit" is the status the query names for the   *)
(* customer nudge; no handler of the status machine writes it.             *)
(***************************************************************************)
AlertStatuses ==
    { "New", "Design", "Quoting", "PROPOSAL SENT - AWAITING CUSTOMER", "Awaiting Deposit" }
Timestamps == { d * 100 + h : d \in Ordinals, h \in Hours }
lit_design == <<"d", "e", "s", "i", "g", "n">>
lit_quoting == <<"q", "u", "o", "t", "i", "n", "g">>
lit_awaiting_deposit_norm ==
    <<"a", "w", "a", "i", "t", "i", "n", "g", "_", "d", "e", "p", "o", "s", "i", "t">>

\* the datetime of a timestamp column, None for NULL
as_datetime(ts) ==
    IF ts = NULL THEN None
    ELSE [ kind |-> "datetime", day |-> ts \div 100, hour |-> ts % 100 ]

\* the snooze filter left out of the query
snooze_filter_off(snooze_until, now) == TRUE

\* snooze_until IS NULL OR snooze_until < NOW()
snooze_filter(snooze_until, now) == snooze_until = NULL \/ snooze_until < now

\* the WHERE clause of the query
alert_query_matches(row, now) ==
    /\ row.status \in {"Design", "Quoting", "Awaiting Deposit"}
    /\ row.status_updated_at # NULL
    /\ snooze_filter(row.snooze_until, now)

\* the loop body: the alert_type of the row, "none" for no alert
alert_for(row, now) ==
    LET status == replace(lower(Spell(row.status)), " ", "_")
        counted == calculate_business_days(as_datetime(row.status_updated_at), as_datetime(now))
    IN  IF status = lit_design /\ counted > 3 THEN "matt_nudge"
        ELSE IF status = lit_quoting /\ counted > 1 THEN "bruno_nudge"
        ELSE IF status = lit_awaiting_deposit_norm /\ counted > 3 THEN "customer_nudge"
        ELSE "none"

get_system_alerts(row, now) ==
    IF alert_query_matches(row, now) THEN alert_for(row, now) ELSE "none"

\* system_alerts = get_system_alerts()
AlertsQuery ==
    /\ alerts.pc = "start"
    /\ alerts' =
          [alerts EXCEPT !.pc = "listed",
              !.alert_type = get_system_alerts(alerts, alerts.now),
              !.business_days = calculate_business_days(as_datetime(alerts.status_updated_at),
                                                        as_datetime(alerts.now))]
    /\ ToolsUnchangedExcept("alerts")
    /\ UNCHANGED <<mainVars, deleteVars, raceVars, ledgerVars>>

\* "Snz" on a listed alert: snooze_project_alert(project_id, 24), st.rerun()
SnoozeAlert ==
    /\ alerts.pc = "listed"
    /\ alerts.alert_type # "none"
    /\ alerts' = [alerts EXCEPT !.pc = "start", !.snooze_until = alerts.now + 100,
                                !.alert_type = "none"]
    /\ ToolsUnchangedExcept("alerts")
    /\ UNCHANGED <<mainVars, deleteVars, raceVars, ledgerVars>>

AlertsInit ==
    /\ MainInit
    /\ tables = NoRows
    /\ delete_call = IdleCall
    /\ workers = [s \in Sessions |-> NoWorker]
    /\ last_update = ""
    /\ ledger = NoLedger
    /\ period_groups = NoGrouping
    /\ ToolsIdleExcept("alerts")
    /\ \E now \in Timestamps, status \in AlertStatuses, snooze_until \in {NULL} \cup Timestamps :
       \E status_updated_at \in {NULL} \cup { t \in Timestamps : t <= now } :
          alerts = [NoAlerts EXCEPT !.pc = "start", !.now = now, !.status = status,
                                    !.status_updated_at = status_updated_at,
                                    !.snooze_until = snooze_until]

AlertsNext == AlertsQuery \/ SnoozeAlert

AlertsSpec == AlertsInit /\ [][AlertsNext]_vars

(***************************************************************************)
(* api/lead_receiver.py do_POST, create_lead_from_zapier and create_lead,  *)
(* statement by statement.  The body is bytes that are not UTF-8, text     *)
(* that is not JSON, JSON that is not an object, or an object; a key of    *)
(* the object holds "x" or is empty (absent, null or "").  projects and    *)
(* project_history count the rows committed by the request, tx the rows    *)
(* inserted by the open transaction.                                       *)
(***************************************************************************)
BodyKinds == {"not_utf8", "invalid_json", "not_object", "object"}
FieldValues == {"", "x"}
NoFields ==
    [ name |-> "", client_name |-> "", phone |-> "", phone_number |-> "", email |-> "" ]
BodyFields ==
    [ name : FieldValues, client_name : FieldValues, phone : FieldValues,
      phone_number : FieldValues, email : FieldValues ]

\* Python's `a or b` on strings
or_else(a, b) == IF a # "" THEN a ELSE b

\* name, phone, email as create_lead_from_zapier reads them
zapier_name(data) == or_else(data.name, data.client_name)
zapier_phone(data) == or_else(data.phone, data.phone_number)
zapier_email(data) == data.email

\* the check left out
has_lead_data_unchecked(data) == TRUE

\* not (not name and not phone and not email)
has_lead_data(data) ==
    ~(zapier_name(data) = "" /\ zapier_phone(data) = "" /\ zapier_email(data) = "")

\* self.send_response(code); json.dumps({"status": ..., "message": ...})
respond(req, code, status, message) ==
    [req EXCEPT !.pc = "answered", !.code = code, !.status = status, !.message = message]

\* engine.begin() left by an exception: the transaction is rolled back,
\* create_lead returns False and do_POST answers 400
create_lead_failed(req) ==
    respond([req EXCEPT !.tx = [ projects |-> 0, project_history |-> 0 ]],
            400, "error", "Failed to create lead")

\* do_POST up to the first statement of create_lead
WebhookReceive ==
    /\ webhook.pc = "received"
    /\ webhook' =
          CASE webhook.kind = "not_utf8" -> respond(webhook, 500, "error", "str(e)")
            [] webhook.kind = "invalid_json" -> respond(webhook, 400, "error", "Invalid JSON")
            [] webhook.kind = "not_object" -> respond(webhook, 500, "error", "str(e)")
            [] webhook.kind = "object" ->
                 IF ~has_lead_data(webhook.fields)
                 THEN respond(webhook, 400, "error", "No lead data provided")
                 ELSE IF ~webhook.engine
                      THEN create_lead_failed(webhook)
                      ELSE [webhook EXCEPT !.pc = "insert_project"]
    /\ ToolsUnchangedExcept("webhook")
    /\ UNCHANGED <<mainVars, deleteVars, raceVars, ledgerVars>>

\* INSERT INTO projects (...) VALUES (..., 'New', ...)
WebhookInsertProject ==
    /\ webhook.pc = "insert_project"
    /\ \E executed \in BOOLEAN :
          webhook' =
              IF executed
              THEN [webhook EXCEPT !.pc = "insert_phone", !.tx.projects = 1, !.new_status = "New"]
              ELSE create_lead_failed(webhook)
    /\ ToolsUnchangedExcept("webhook")
    /\ UNCHANGED <<mainVars, deleteVars, raceVars, ledgerVars>>

\* if phone: INSERT INTO project_history (... 'phone' ...)
WebhookInsertPhone ==
    /\ webhook.pc = "insert_phone"
    /\ IF zapier_phone(webhook.fields) = ""
       THEN webhook' = [webhook EXCEPT !.pc = "insert_email"]
       ELSE \E executed \in BOOLEAN :
              webhook' =
                  IF executed
                  THEN [webhook EXCEPT !.pc = "insert_email",
                                       !.tx.project_history = @ + 1]
                  ELSE create_lead_failed(webhook)
    /\ ToolsUnchangedExcept("webhook")
    /\ UNCHANGED <<mainVars, deleteVars, raceVars, ledgerVars>>

\* if email: INSERT INTO project_history (... 'email' ...)
WebhookInsertEmail ==
    /\ webhook.pc = "insert_email"
    /\ IF zapier_email(webhook.fields) = ""
       THEN webhook' = [webhook EXCEPT !.pc = "commit"]
       ELSE \E executed \in BOOLEAN :
              webhook' =
                  IF executed
                  THEN [webhook EXCEPT !.pc = "commit", !.tx.project_history = @ + 1]
                  ELSE create_lead_failed(webhook)
    /\ ToolsUnchangedExcept("webhook")
    /\ UNCHANGED <<mainVars, deleteVars, raceVars, ledgerVars>>

\* return True inside `with engine.begin()`: the commit, then the 200 answer
WebhookCommit ==
    /\ webhook.pc = "commit"
    /\ \E committed \in BOOLEAN :
          webhook' =
              IF committed
              THEN respond([webhook EXCEPT !.projects = @ + webhook.tx.projects,
                                           !.project_history = @ + webhook.tx.project_history,
                                           !.tx = [ projects |-> 0, project_history |-> 0 ]],
                           200, "success", "Lead created")
              ELSE create_lead_failed(webhook)
    /\ ToolsUnchangedExcept("webhook")
    /\ UNCHANGED <<mainVars, deleteVars, raceVars, ledgerVars>>

WebhookInit ==
    /\ MainInit
    /\ tables = NoRows
    /\ delete_call = IdleCall
    /\ workers = [s \in Sessions |-> NoWorker]
    /\ last_update = ""
    /\ ledger = NoLedger
    /\ period_groups = NoGrouping
    /\ ToolsIdleExcept("webhook")
    /\ \E kind \in BodyKinds, engine \in BOOLEAN :
       \E fields \in (IF kind = "object" THEN BodyFields ELSE {NoFields}) :
          webhook = [NoWebhook EXCEPT !.pc = "received", !.kind = kind,
                                     !.fields = fields, !.engine = engine]

WebhookNext ==
    \/ WebhookReceive
    \/ WebhookInsertProject
    \/ WebhookInsertPhone
    \/ WebhookInsertEmail
    \/ WebhookCommit

WebhookSpec == WebhookInit /\ [][WebhookNext]_vars

(***************************************************************************)
(* Calls made without a database engine or with a short SMTP setup:        *)
(* get_engine, execute_query, execute_update and the functions of          *)
(* services/database_manager.py grouped by what they return when           *)
(* get_engine() gives None; get_smtp_config and send_email of              *)
(* services/email_service.py.  An environment variable holds a text, or    *)
(* "unset" when it is not defined.                                         *)
(***************************************************************************)
\* return execute_query(...), or `if engine is None: return []`
reads_returning_list ==
    {       "get_all_projects", "get_promoted_projects", "get_archived_projects",
      "get_won_projects", "get_lost_projects", "get_new_leads",
      "get_all_projects_for_ledger", "get_paid_commissions_for_ledger",
      "get_commissions_by_period", "get_project_touches",
      "get_project_history", "get_action_items", "get_urgent_items",
      "get_system_alerts", "get_victory_lap_items", "get_project_photos",
      "get_project_proposals" }
\* return results[0] if results else None
reads_returning_none ==
    {       "get_project_by_id", "get_lead_by_id", "get_deposit_received_date" }
\* a default built from the empty result: "", {}, set(), 1, empty categories
reads_returning_default ==
    {       "get_all_promoted_ids", "get_primary_contact_email",
      "get_commission_notes", "get_production_logistics",
      "get_commission_data", "get_next_photo_index",
      "get_photos_by_categories" }
\* return execute_update(...), or success = execute_update(...)
writes_through_execute_update ==
    {       "update_project_identity", "update_design_proof",
      "update_no_design_required", "set_master_spec", "lock_production",
      "set_signed_spec", "update_proposal", "update_project_status",
      "update_project_status_with_note", "update_permit_info",
      "update_lead_status", "update_project_ledger", "delete_project_photo",
      "update_deposit_stage", "add_project_note", "add_project_touch",
      "update_project_estimated_value", "update_action_status",
      "clear_action_status", "snooze_project_alert" }
\* engine = get_engine(); if engine is None: return False
writes_checking_engine ==
    {       "archive_project", "restore_project", "mark_project_won",
      "mark_project_lost", "promote_projects", "demote_projects",
      "ensure_leads_table", "create_lead", "add_lead_note",
      "save_project_photo", "mark_deposit_received",
      "save_commission_amounts", "save_production_logistics",
      "close_project_with_final_payment", "update_proposal_scan_results",
      "delete_proposal", "add_project_history" }
\* return (False, "...")
writes_returning_pair ==
    {       "delete_project", "set_proposal_as_primary", "create_lead_from_zapier" }
\* return None, "Database connection not available"
writes_returning_none_pair == { "save_project_proposal" }

DatabaseReads == reads_returning_list \cup reads_returning_none \cup reads_returning_default
DatabaseWrites ==
    writes_through_execute_update \cup writes_checking_engine
        \cup writes_returning_pair \cup writes_returning_none_pair

\* DATABASE_URL is not defined, create_engine raises, or the engine is made
DatabaseUrls == {"unset", "bad_url", "postgresql"}

\* get_engine: None unless create_engine returned an engine
get_engine(database_url) == IF database_url = "postgresql" THEN "engine" ELSE "None"

\* what a function returns when get_engine() is None
without_engine(fn) ==
    CASE fn \in reads_returning_list -> "[]"
      [] fn \in reads_returning_none -> "None"
      [] fn \in reads_returning_default -> "default"
      [] fn \in writes_through_execute_update -> "False"
      [] fn \in writes_checking_engine -> "False"
      [] fn \in writes_returning_pair -> "(False, message)"
      [] fn \in writes_returning_none_pair -> "(None, message)"

SmtpTexts == {"", "x"}
SmtpPorts == {"unset", "", "0", "587"}
SmtpSettings ==
    [ SMTP_SERVER : SmtpTexts, SMTP_PORT : SmtpPorts,
      SMTP_EMAIL : SmtpTexts, SMTP_PASSWORD : SmtpTexts ]

\* int(text): the texts of digits have a value, the others raise ValueError
int_raises(str) == str \notin {"0", "587"}
int_value(str) == IF str = "587" THEN 587 ELSE 0

\* os.environ.get("SMTP_PORT", "587")
port_text(env) == IF env.SMTP_PORT = "unset" THEN "587" ELSE env.SMTP_PORT

\* all([config["server"], config["port"], config["email"], config["password"]])
smtp_config_complete(env) ==
    /\ env.SMTP_SERVER # ""
    /\ int_value(port_text(env)) # 0
    /\ env.SMTP_EMAIL # ""
    /\ env.SMTP_PASSWORD # ""

\* a database_manager function called from a view
CallDatabase ==
    /\ service_call.pc = "ready"
    /\ \E fn \in DatabaseReads \cup DatabaseWrites :
          service_call' =
              [service_call EXCEPT !.pc = "returned", !.fn = fn,
                  !.result = IF get_engine(service_call.database_url) = "None"
                             THEN without_engine(fn) ELSE "served",
                  !.statements = IF get_engine(service_call.database_url) = "None"
                                 THEN 0 ELSE 1]
    /\ ToolsUnchangedExcept("service_call")
    /\ UNCHANGED <<mainVars, deleteVars, raceVars, ledgerVars>>

\* send_email: get_smtp_config(), the completeness check, then the SMTP
\* session inside try/except
SendEmail ==
    /\ service_call.pc = "ready"
    /\ IF int_raises(port_text(service_call.smtp))
       THEN service_call' =
               [service_call EXCEPT !.pc = "returned", !.fn = "send_email",
                                    !.raised = "ValueError", !.result = "none"]
       ELSE IF ~smtp_config_complete(service_call.smtp)
            THEN service_call' =
                    [service_call EXCEPT !.pc = "returned", !.fn = "send_email",
                                         !.result = "(False, message)"]
            ELSE \E sent \in BOOLEAN :
                    service_call' =
                        [service_call EXCEPT !.pc = "returned", !.fn = "send_email",
                            !.result = IF sent THEN "(True, message)" ELSE "(False, message)"]
    /\ ToolsUnchangedExcept("service_call")
    /\ UNCHANGED <<mainVars, deleteVars, raceVars, ledgerVars>>

ConnectivityInit ==
    /\ MainInit
    /\ tables = NoRows
    /\ delete_call = IdleCall
    /\ workers = [s \in Sessions |-> NoWorker]
    /\ last_update = ""
    /\ ledger = NoLedger
    /\ period_groups = NoGrouping
    /\ ToolsIdleExcept("service_call")
    /\ \E database_url \in DatabaseUrls, smtp \in SmtpSettings :
          service_call = [NoServiceCall EXCEPT !.pc = "ready",
                                               !.database_url = database_url, !.smtp = smtp]

ConnectivityNext == CallDatabase \/ SendEmail

ConnectivitySpec == ConnectivityInit /\ [][ConnectivityNext]_vars

(***************************************************************************)
(* The two places that call delete_project: the footer of project_detail   *)
(* (shown for an archived project, behind a checkbox) and the hot lead     *)
(* card of the dashboard ("Del", then "Yes").  The call itself is followed *)
(* statement by statement above; here it removes the project row or fails. *)
(***************************************************************************)
\* a committed delete_project: DELETE FROM projects WHERE id = :project_id
delete_project(rows, p) == [rows EXCEPT ![p] = NoRow]

\* st.checkbox("Confirm permanent delete")
ToggleConfirmDelete(s, p) ==
    /\ OnProjectPage(s, p)
    /\ is_archived(p)
    /\ delete_ui' = [delete_ui EXCEPT ![s].confirm_delete = ~@]
    /\ lastOp' = Op("ToggleConfirmDelete", s, p, StatusOf(p), "none", TRUE, FALSE, 0, 0)
    /\ ToolsUnchangedExcept("delete_ui")
    /\ UNCHANGED <<projects, commissions, production_logistics, session_state, today,
                   deleteVars, raceVars, ledgerVars>>

\* the footer's "Delete" button, disabled = not confirm_checked
FooterDelete(s, p) ==
    /\ OnProjectPage(s, p)
    /\ is_archived(p)
    /\ delete_ui[s].confirm_delete
    /\ \E success \in BOOLEAN :
        /\ projects' = IF success THEN delete_project(projects, p) ELSE projects
        /\ session_state' = IF success
                            THEN [session_state EXCEPT ![s].page = "Dashboard"]
                            ELSE session_state
        /\ lastOp' = Op("FooterDelete", s, p, StatusOf(p), "none", success, FALSE, 0, 0)
    /\ UNCHANGED <<commissions, production_logistics, today, sideVars>>

\* "Del" on a hot lead card: st.session_state[confirm_key] = True
HotLeadDel(s, p) ==
    /\ OnDashboardLead(s, p)
    /\ ~delete_ui[s].confirm_delete_lead
    /\ delete_ui' = [delete_ui EXCEPT ![s].confirm_delete_lead = TRUE]
    /\ lastOp' = Op("HotLeadDel", s, p, StatusOf(p), "none", TRUE, FALSE, 0, 0)
    /\ ToolsUnchangedExcept("delete_ui")
    /\ UNCHANGED <<projects, commissions, production_logistics, session_state, today,
                   deleteVars, raceVars, ledgerVars>>

\* "Yes" on a hot lead card: success, _ = delete_project(project_id)
HotLeadYes(s, p) ==
    /\ OnDashboardLead(s, p)
    /\ delete_ui[s].confirm_delete_lead
    /\ \E success \in BOOLEAN :
        /\ projects' = IF success THEN delete_project(projects, p) ELSE projects
        /\ delete_ui' = IF success
                        THEN [delete_ui EXCEPT ![s].confirm_delete_lead = FALSE]
                        ELSE delete_ui
        /\ lastOp' = Op("HotLeadYes", s, p, StatusOf(p), "none", success, FALSE, 0, 0)
    /\ ToolsUnchangedExcept("delete_ui")
    /\ UNCHANGED <<commissions, production_logistics, session_state, today,
                   deleteVars, raceVars, ledgerVars>>

DeleteUiInit ==
    /\ \E status \in StoredStatuses :
          projects = [p \in ProjectIds |-> NewRow(status)]
    /\ commissions = [p \in ProjectIds |-> NoCommission]
    /\ production_logistics = [p \in ProjectIds |-> NULL]
    /\ session_state = [s \in Sessions |-> NoSession]
    /\ today = 1
    /\ lastOp = Op("init", 0, NoProject, "", "none", TRUE, FALSE, 0, 0)
    /\ tables = NoRows
    /\ delete_call = IdleCall
    /\ workers = [s \in Sessions |-> NoWorker]
    /\ last_update = ""
    /\ ledger = NoLedger
    /\ period_groups = NoGrouping
    /\ ToolsIdleExcept("none")

DeleteUiNext ==
    \E s \in Sessions, p \in ProjectIds :
        \/ OpenProjectDetail(s, p)
        \/ BackToDashboard(s)
        \/ ArchiveProject(s, p)
        \/ RestoreProject(s, p)
        \/ ToggleConfirmDelete(s, p)
        \/ FooterDelete(s, p)
        \/ HotLeadDel(s, p)
        \/ HotLeadYes(s, p)

DeleteUiSpec == DeleteUiInit /\ [][DeleteUiNext]_vars

(***************************************************************************)
(* The commission row of one project from the first amounts of Block D to  *)
(* the closeout of Block G, and the ledger query on it.                    *)
(***************************************************************************)
\* the amounts of the two number_input fields of "Confirm Amounts"
ConfirmedAmounts == 0..MaxAmount

\* save_commission_amounts called without deposit_date: INSERT ... ON
\* CONFLICT DO UPDATE SET total_value, deposit_amount, commission_notes
save_commission_amounts(rows, p, total_value, deposit_amount) ==
    [rows EXCEPT ![p].exists = TRUE,
                 ![p].total_value = total_value,
                 ![p].deposit_amount = deposit_amount]

\* "Confirm Amounts & Update Commission", disabled = not has_valid_amounts;
\* it stands in Block D after the early return of a received deposit
ConfirmAmounts(s, p) ==
    /\ BlockDOpen(s, p)
    /\ \E final_total \in ConfirmedAmounts, final_deposit \in ConfirmedAmounts,
          commission_saved \in BOOLEAN :
        /\ final_total > 0 \/ final_deposit > 0
        /\ commissions' = IF commission_saved
                          THEN save_commission_amounts(commissions, p, final_total,
                                                       final_deposit)
                          ELSE commissions
        /\ lastOp' = OpWith("ConfirmAmounts", s, p, StatusOf(p), commission_saved, FALSE,
                            N(commission_saved), N(commission_saved),
                            <<final_total, final_deposit>>)
    /\ UNCHANGED <<projects, production_logistics, session_state, today, sideVars>>

\* projects p INNER JOIN commissions c ON p.id = c.project_id, for the
\* tenant's rows with is_active_v3 = TRUE; commission_rate is not set
joined_row(p) ==
    [ listed |-> projects[p].exists /\ commissions[p].exists,
      deposit_received_date |-> commissions[p].deposit_received_date,
      deposit_amount |-> commissions[p].deposit_amount,
      final_payment_date |-> commissions[p].final_payment_date,
      total_amount_received |-> commissions[p].total_amount_received,
      commission_rate |-> SqlNull ]

\* the ledger page: commissions = get_paid_commissions_for_ledger()
OpenLedger(p) ==
    /\ projects[p].exists
    /\ ledger' = [NoLedger EXCEPT !.pc = "queried", !.row = joined_row(p),
                                  !.events = get_paid_commissions_for_ledger(joined_row(p))]
    /\ ledger' # ledger
    /\ UNCHANGED <<mainVars, deleteVars, raceVars, period_groups, toolVars>>

CommissionInit ==
    /\ projects = [p \in ProjectIds |-> NewRow("Block A")]
    /\ commissions = [p \in ProjectIds |-> NoCommission]
    /\ production_logistics = [p \in ProjectIds |-> NULL]
    /\ session_state = [s \in Sessions |-> NoSession]
    /\ today = 1
    /\ lastOp = Op("init", 0, NoProject, "", "none", TRUE, FALSE, 0, 0)
    /\ SideIdle

CommissionNext ==
    \/ Tick
    \/ \E p \in ProjectIds : OpenLedger(p)
    \/ \E s \in Sessions : BackToDashboard(s)
    \/ \E s \in Sessions, p \in ProjectIds :
        \/ OpenProjectDetail(s, p)
        \/ RequestDepositInvoice(s, p)
        \/ SendDepositInvoice(s, p)
        \/ LockMasterSpec(s, p)
        \/ SaveSignedSpec(s, p)
        \/ ConfirmAmounts(s, p)
        \/ ConfirmDeposit(s, p)
        \/ SetInstallDate(s, p)
        \/ CloseProject(s, p)
        \/ VictoryLapSend(s, p)

CommissionSpec == CommissionInit /\ [][CommissionNext]_vars

Next ==
    \/ WebhookPost
    \/ ImportMigrated
    \/ Tick
    \/ \E p \in ProjectIds : AssignDesignProof(p)
    \/ \E s \in Sessions : SmartIntakeSave(s) \/ BackToDashboard(s)
    \/ \E s \in Sessions, p \in ProjectIds :
        \/ OpenLeadDetail(s, p)
        \/ OpenProjectDetail(s, p)
        \/ LeadCall(s, p)
        \/ LeadSaveNote(s, p)
        \/ LeadSendEmail(s, p)
        \/ LeadMarkTextSent(s, p)
        \/ HotLeadCall(s, p)
        \/ HotLeadSendEmail(s, p)
        \/ HotLeadTextSent(s, p)
        \/ ToggleNoDesignRequired(s, p)
        \/ UploadDesignFile(s, p)
        \/ SendDesignEmail(s, p)
        \/ SendPricingEmail(s, p)
        \/ SendProposalEmail(s, p)
        \/ LegacyProposalSent(s, p)
        \/ RequestDepositInvoice(s, p)
        \/ SendDepositInvoice(s, p)
        \/ LockMasterSpec(s, p)
        \/ SaveSignedSpec(s, p)
        \/ ConfirmDeposit(s, p)
        \/ SetInstallDate(s, p)
        \/ CloseProject(s, p)
        \/ ProjectLost(s, p)
        \/ ProjectWon(s, p)
        \/ ArchiveProject(s, p)
        \/ RestoreProject(s, p)
        \/ VictoryLapSend(s, p)

Spec == Init /\ [][Next]_vars

(***************************************************************************)
(* Properties                                                              *)
(***************************************************************************)
\* The project has no stored design-proof reference and its
\* "no design required" flag is false.
NoStoredDesign(p) ==
    /\ projects[p].design_proof_drive_id = ""
    /\ ~projects[p].no_design_required

\* C1 as stated: whatever the status, a pricing request on a project with
\* no stored design-proof reference and "no design required" false is
\* rejected, so the last run is never a pricing send on such a project.
\* (A pricing send leaves both fields as they were.)
C1_AsStated ==
    lastOp.op = "SendPricingEmail" => ~NoStoredDesign(lastOp.p)

\* C1 amended: the pricing request is rejected (no send attempted, status
\* unchanged) when the project has no stored design-proof reference, "no
\* design required" is false, the session holds no file in the design
\* uploader, and the status is none of the focus-mode statuses
\* (active_production, production, in_production, installed, completed,
\* invoiced, permit_pending).
C1_PricingGate ==
    /\ lastOp.op = "SendPricingEmail" =>
          \/ ~NoStoredDesign(lastOp.p)
          \/ session_state[lastOp.s].design_uploaded[lastOp.p]
          \/ Norm2Of[lastOp.pre] \in focus_mode_statuses
    /\ \A s \in Sessions, p \in ProjectIds :
          ( /\ OnProjectPage(s, p)
            /\ NoStoredDesign(p)
            /\ ~session_state[s].design_uploaded[p]
            /\ status_norm2(p) \notin focus_mode_statuses )
          => ~ENABLED SendPricingEmail(s, p)

\* C1 witness: a project page is shown for a project with no stored
\* design, no uploaded file and a status outside focus mode, and the
\* pricing request is not available there.
C1_Rejected ==
    \E s \in Sessions, p \in ProjectIds :
        /\ OnProjectPage(s, p)
        /\ NoStoredDesign(p)
        /\ ~session_state[s].design_uploaded[p]
        /\ status_norm2(p) \notin focus_mode_statuses
        /\ StatusOf(p) = "Design"
        /\ ~ENABLED SendPricingEmail(s, p)

\* C2: in every reachable state a project with production_locked = true
\* has a master-spec and a signed-spec reference, and the deposit
\* confirmation is not available (so writes nothing) while either
\* reference is missing, whatever amount is entered.
C2_LockedHasSpecs ==
    /\ \A p \in ProjectIds :
          projects[p].production_locked =>
              /\ projects[p].master_spec_file_id # ""
              /\ projects[p].signed_spec_file_id # ""
    /\ lastOp.op = "ConfirmDeposit" =>
          /\ projects[lastOp.p].master_spec_file_id # ""
          /\ projects[lastOp.p].signed_spec_file_id # ""
    /\ \A s \in Sessions, p \in ProjectIds :
          ( \/ projects[p].master_spec_file_id = ""
            \/ projects[p].signed_spec_file_id = "" )
          => ~ENABLED ConfirmDeposit(s, p)

\* C2 witness: a deposit confirmation has locked production.
C2_Locked ==
    /\ lastOp.op = "ConfirmDeposit"
    /\ projects[lastOp.p].production_locked
    /\ projects[lastOp.p].master_spec_file_id # ""
    /\ projects[lastOp.p].signed_spec_file_id # ""

\* C3 as stated: after an accepted deposit confirmation whose
\* mark_deposit_received succeeded, the status is ACTIVE PRODUCTION,
\* production_locked is true and the entered date and amount are on the
\* project row.
C3_AsStated ==
    (lastOp.op = "ConfirmDeposit" /\ lastOp.ok) =>
        /\ projects[lastOp.p].status = "ACTIVE PRODUCTION"
        /\ projects[lastOp.p].production_locked
        /\ projects[lastOp.p].deposit_received_date = lastOp.input[1]
        /\ projects[lastOp.p].deposit_amount = lastOp.input[2]

\* C3 amended: after an accepted deposit confirmation whose
\* mark_deposit_received succeeded, the status is ACTIVE PRODUCTION and the
\* entered date and amount are on the project row; production_locked is
\* true when the UPDATE of lock_production committed too (the run then ends
\* in the exception of its history call), and keeps its value when it did not.
C3_DepositStored ==
    (lastOp.op = "ConfirmDeposit" /\ lastOp.ok) =>
        /\ projects[lastOp.p].status = "ACTIVE PRODUCTION"
        /\ projects[lastOp.p].deposit_received_date = lastOp.input[1]
        /\ projects[lastOp.p].deposit_amount = lastOp.input[2]
        /\ projects[lastOp.p].production_locked = lastOp.raised

\* C3 witness: a confirmed deposit whose lock committed.
C3_Confirmed ==
    /\ lastOp.op = "ConfirmDeposit"
    /\ lastOp.ok
    /\ lastOp.raised
    /\ projects[lastOp.p].status = "ACTIVE PRODUCTION"
    /\ projects[lastOp.p].deposit_amount = lastOp.input[2]
\* C4 step 1: a webhook POST with a name and a phone creates the project
\* in status New.
C4_Webhook ==
    (lastOp.op = "WebhookPost" /\ lastOp.ok) => projects[lastOp.p].status = "New"

\* C4 step 2: a note on the New lead moves it to Block A.
C4_Note ==
    (lastOp.op = "LeadSaveNote" /\ lastOp.pre = "New") =>
        projects[lastOp.p].status = "Block A"

\* C4 step 3: a design-request email sent successfully for the project in
\* Block A moves it to Design.
C4_DesignEmail ==
    (lastOp.op = "SendDesignEmail" /\ lastOp.email = "sent" /\ lastOp.pre = "Block A") =>
        projects[lastOp.p].status = "Design"

\* C4 step 4: with no design proof present no pricing email is attempted
\* and the status stays as it was.
C4_PricingRejected ==
    lastOp.op = "SendPricingEmail" =>
        \/ ~NoStoredDesign(lastOp.p)
        \/ session_state[lastOp.s].design_uploaded[lastOp.p]
        \/ Norm2Of[lastOp.pre] \in focus_mode_statuses

\* C4 as stated: webhook, note, design-request email, pricing request give
\* the statuses New, Block A, Design, Design, and the last step attempts no
\* pricing email.
C4_AsStated ==
    /\ C4_Webhook
    /\ C4_Note
    /\ C4_DesignEmail
    /\ C4_PricingRejected

ContactOps ==
    { "LeadCall", "LeadSendEmail", "LeadMarkTextSent",
      "HotLeadCall", "HotLeadSendEmail", "HotLeadTextSent" }

\* C5 as stated: a contact action or a manual note changes the status (to
\* Block A) only when the stored status is New; on any other status it
\* leaves the status unchanged.
C5_AsStated ==
    (lastOp.op \in ContactOps \cup {"LeadSaveNote"} /\ lastOp.pre # "New") =>
        projects[lastOp.p].status = lastOp.pre

lit_awaiting_deposit == <<"a", "w", "a", "i", "t", "i", "n", "g", "_", "d", "e", "p", "o", "s", "i", "t">>

\* the status is Awaiting Deposit, compared as the views compare statuses
IsAwaitingDeposit(status) == Norm2Of[status] = lit_awaiting_deposit

\* C6, first half: after a proposal email sent successfully for a project
\* in Quoting the status is Awaiting Deposit.
C6_ProposalEmail ==
    (lastOp.op = "SendProposalEmail" /\ lastOp.email = "sent" /\ lastOp.pre = "Quoting") =>
        IsAwaitingDeposit(projects[lastOp.p].status)

\* C6, second half: after the legacy "already sent" override the status is
\* Awaiting Deposit.
C6_LegacyOverride ==
    (lastOp.op = "LegacyProposalSent" /\ lastOp.ok) =>
        IsAwaitingDeposit(projects[lastOp.p].status)

\* C6 as stated: both halves.
C6_AsStated == C6_ProposalEmail /\ C6_LegacyOverride
\* C7: a closeout that commits sets the status to Confirmed exactly when a
\* target installation date is recorded and is later than today, and to
\* Completed (stored in lower case) otherwise; it records today as
\* final_payment_date and the entered amount as total_amount_received on
\* the commission row.
C7_Closeout ==
    (lastOp.op = "CloseProject" /\ lastOp.ok) =>
        LET install_date == production_logistics[lastOp.p]
            future == install_date # NULL /\ install_date > today
        IN  /\ future => projects[lastOp.p].status = "Confirmed"
            /\ ~future => LowerOf[projects[lastOp.p].status] = lit_completed
            /\ commissions[lastOp.p].exists
            /\ commissions[lastOp.p].final_payment_date = today
            /\ commissions[lastOp.p].total_amount_received = lastOp.input[1]

\* C7 witness: a closeout before the installation date left the project
\* Confirmed, with the payment recorded.
C7_ClosedBeforeInstall ==
    /\ lastOp.op = "CloseProject"
    /\ lastOp.ok
    /\ production_logistics[lastOp.p] > today
    /\ projects[lastOp.p].status = "Confirmed"
    /\ commissions[lastOp.p].final_payment_date = today

\* The stage of a status in the order New < Block A < Design < Quoting <
\* Awaiting Deposit (Confirmed, Approved) < ACTIVE PRODUCTION < Completed;
\* 0 for a status outside the order.
StageOf(status) ==
    LET n == Norm2Of[status]
    IN  CASE n = <<"n", "e", "w">> -> 1
          [] n = <<"b", "l", "o", "c", "k", "_", "a">> -> 2
          [] n = <<"d", "e", "s", "i", "g", "n">> -> 3
          [] n = <<"q", "u", "o", "t", "i", "n", "g">> -> 4
          [] n \in { <<"a", "w", "a", "i", "t", "i", "n", "g", "_", "d", "e", "p", "o", "s", "i", "t">>,
                     <<"c", "o", "n", "f", "i", "r", "m", "e", "d">>,
                     <<"a", "p", "p", "r", "o", "v", "e", "d">> } -> 5
          [] n = <<"a", "c", "t", "i", "v", "e", "_", "p", "r", "o", "d", "u", "c", "t", "i", "o", "n">> -> 6
          [] n = <<"c", "o", "m", "p", "l", "e", "t", "e", "d">> -> 7
          [] OTHER -> 0

\* the run moved the status from `before` to an earlier stage
MovedBack(before, after) ==
    /\ StageOf(before) # 0
    /\ StageOf(after) # 0
    /\ StageOf(after) < StageOf(before)

PipelineOps ==
    ContactOps \cup { "LeadSaveNote", "SendDesignEmail", "SendPricingEmail",
                      "SendProposalEmail", "ConfirmDeposit", "CloseProject",
                      "VictoryLapSend" }

EnumeratedStatuses ==
    { <<"N", "e", "w">>,
      <<"B", "l", "o", "c", "k", " ", "A">>,
      <<"D", "e", "s", "i", "g", "n">>,
      <<"Q", "u", "o", "t", "i", "n", "g">>,
      <<"P", "r", "i", "c", "i", "n", "g">>,
      <<"P", "r", "o", "p", "o", "s", "a", "l">>,
      <<"A", "w", "a", "i", "t", "i", "n", "g", " ", "D", "e", "p", "o", "s", "i", "t">>,
      <<"C", "o", "n", "f", "i", "r", "m", "e", "d">>,
      <<"A", "p", "p", "r", "o", "v", "e", "d">>,
      <<"A", "C", "T", "I", "V", "E", " ", "P", "R", "O", "D", "U", "C", "T", "I", "O", "N">>,
      <<"i", "n", "_", "p", "r", "o", "d", "u", "c", "t", "i", "o", "n">>,
      <<"p", "e", "r", "m", "i", "t", "_", "p", "e", "n", "d", "i", "n", "g">>,
      <<"C", "o", "m", "p", "l", "e", "t", "e", "d">>,
      <<"I", "n", "v", "o", "i", "c", "e", "d">>,
      <<"C", "l", "o", "s", "e", "d", " ", "-", " ", "W", "o", "n">>,
      <<"C", "l", "o", "s", "e", "d", " ", "-", " ", "L", "o", "s", "t">>,
      <<"A", "r", "c", "h", "i", "v", "e", "d">>,
      <<"M", "I", "G", "R", "A", "T", "E", "D">> }

\* compared case- and separator-insensitively
EnumeratedNorm ==
    { replace(replace(lower(x), " ", "_"), "-", "_") : x \in EnumeratedStatuses }

\* C9 as stated: in every reachable state every stored status is one of
\* the enumerated values, compared case- and separator-insensitively.
C9_AsStated ==
    \A p \in ProjectIds :
        projects[p].exists => Norm2Of[projects[p].status] \in EnumeratedNorm

TerminalLower ==
    { <<"c", "l", "o", "s", "e", "d", " ", "-", " ", "w", "o", "n">>,
      <<"c", "l", "o", "s", "e", "d", " ", "-", " ", "l", "o", "s", "t">>,
      <<"c", "o", "m", "p", "l", "e", "t", "e", "d">>,
      <<"a", "r", "c", "h", "i", "v", "e", "d">> }

\* C10: while the status is Closed - Won, Closed - Lost, Completed or
\* Archived neither "Project Lost" nor "Project Won" is offered, and no run
\* marks a project in one of these statuses lost or won.
C10_NoDecisionWhenClosed ==
    /\ \A s \in Sessions, p \in ProjectIds :
          (projects[p].exists /\ status_lower(p) \in TerminalLower) =>
              /\ ~ENABLED ProjectLost(s, p)
              /\ ~ENABLED ProjectWon(s, p)
    /\ lastOp.op \in {"ProjectLost", "ProjectWon"} =>
          LowerOf[lastOp.pre] \notin TerminalLower

\* C10 witness: the page of a project closed as won is shown, with its
\* deposit received, and offers neither control.
C10_ClosedPageShown ==
    \E s \in Sessions, p \in ProjectIds :
        /\ OnProjectPage(s, p)
        /\ projects[p].status = "Closed - Won"
        /\ projects[p].deposit_received_date # NULL
        /\ ~ENABLED ProjectLost(s, p)
        /\ ~ENABLED ProjectWon(s, p)
NoDecisionLower == TerminalLower \cup { <<"n", "e", "w">> }

\* C11 as stated: "Project Won" and "Project Lost" are both offered from
\* every status other than Closed - Won, Closed - Lost, Completed, Archived
\* and New, and neither is offered from one of these five.
C11_AsStated ==
    \A s \in Sessions, p \in ProjectIds :
        OnProjectPage(s, p) =>
            IF status_lower(p) \in NoDecisionLower
            THEN ~ENABLED ProjectLost(s, p) /\ ~ENABLED ProjectWon(s, p)
            ELSE ENABLED ProjectLost(s, p) /\ ENABLED ProjectWon(s, p)

\* C11 amended: "Project Lost" is offered from every status other than
\* Closed - Won, Closed - Lost, Completed and Archived (New included);
\* "Project Won" is offered from a status other than these four and New
\* exactly when the deposit has been received or the status is a
\* production status (ACTIVE PRODUCTION, Confirmed).
C11_DecisionGates ==
    \A s \in Sessions, p \in ProjectIds :
        OnProjectPage(s, p) =>
            /\ ENABLED ProjectLost(s, p) <=> status_lower(p) \notin TerminalLower
            /\ ENABLED ProjectWon(s, p) <=>
                  /\ status_lower(p) \notin NoDecisionLower
                  /\ \/ projects[p].deposit_received_date # NULL
                     \/ StatusOf(p) \in {"ACTIVE PRODUCTION", "Confirmed"}

\* C11 witness: the page of a Quoting project without a deposit offers
\* "Project Lost" and not "Project Won".
C11_LostOnlyOffered ==
    \E s \in Sessions, p \in ProjectIds :
        /\ OnProjectPage(s, p)
        /\ StatusOf(p) = "Quoting"
        /\ projects[p].deposit_received_date = NULL
        /\ ENABLED ProjectLost(s, p)
        /\ ~ENABLED ProjectWon(s, p)
\* C12: archiving keeps the project row and sets Archived whatever the
\* status was; restoring an archived project sets Block A, not the status
\* the project had when it was archived.
C12_ArchiveRestore ==
    /\ lastOp.op = "ArchiveProject" =>
          /\ projects[lastOp.p].exists
          /\ StatusOf(lastOp.p) = "Archived"
    /\ lastOp.op = "RestoreProject" =>
          /\ lastOp.pre = "Archived"
          /\ projects[lastOp.p].exists
          /\ StatusOf(lastOp.p) = "Block A"

\* C12 witness: a project that had been closed out with its final payment
\* was archived and restored, and is in Block A.
C12_RestoredAfterCloseout ==
    /\ lastOp.op = "RestoreProject"
    /\ lastOp.pre = "Archived"
    /\ commissions[lastOp.p].final_payment_date # NULL
    /\ StatusOf(lastOp.p) = "Block A"
\* C13: once the master-spec reference of a project is set, no step
\* changes or clears it.
C13_MasterSpecKept ==
    [][ \A p \in ProjectIds :
            projects[p].master_spec_file_id # "" =>
                projects'[p].master_spec_file_id = projects[p].master_spec_file_id ]_vars

\* C13 witness: the project was closed out with the master spec that was
\* locked before the deposit still stored.
C13_KeptThroughCloseout ==
    /\ lastOp.op = "CloseProject"
    /\ lastOp.ok
    /\ projects[lastOp.p].master_spec_file_id = "proposal_1"

Range(seq) == { seq[i] : i \in 1..Len(seq) }

\* the committed tables after the call: every row removed with success
\* returned, or none removed with failure returned
AllOrNothing ==
    IF delete_call.result.success
    THEN /\ ~tables["projects"]
         /\ \A t \in Range(tables_with_project_fk) : ~tables[t]
    ELSE tables = delete_call.before

ClaimedChildTables ==
    { "commissions", "project_history", "project_touches", "production_logistics",
      "contacts", "project_photos", "project_proposals" }

\* C15 as stated: after a delete that succeeded, no row of commissions,
\* project_history, project_touches, production_logistics, contacts,
\* project_photos or project_proposals references the project.
C15_AsStated ==
    (delete_call.pc = "done" /\ delete_call.result.success) =>
        \A t \in ClaimedChildTables : ~tables[t]
EmailOps ==
    { "LeadSendEmail", "HotLeadSendEmail", "SendDesignEmail", "SendPricingEmail",
      "VictoryLapSend" }

\* the run left the status, the history and the touches as they were
NothingWritten ==
    /\ StatusOf(lastOp.p) = lastOp.pre
    /\ lastOp.hist = 0
    /\ lastOp.touch = 0

\* C16 as stated: when the send of a lead-outreach email (either dialog),
\* a design-request, a pricing-request or a victory-lap email fails, the
\* status, the history and the touches of the project are unchanged.
C16_AsStated ==
    (lastOp.op \in EmailOps /\ lastOp.email = "failed") => NothingWritten

\* C16, the dialogs other than the one of the lead page: a failed send
\* leaves the status, the history and the touches unchanged.
C16_OtherDialogs ==
    (lastOp.op \in EmailOps \ {"LeadSendEmail"} /\ lastOp.email = "failed") => NothingWritten
\* C17: in every interleaving of the statements of two sessions acting on
\* one project, the stored status is the value set by the last UPDATE that
\* matched the row; the guarded UPDATE of a note, run when the status is
\* not New, matches no row and sets nothing.
C17_LastWriteWins ==
    StatusOf(RaceProject) = last_update

\* C17 witness: a design run read New, a pricing run then set Quoting, and
\* the design run, writing last, left Design.
C17_StaleReadWroteLast ==
    \E s, t \in Sessions :
        /\ workers[s] = [ job |-> "design", pc |-> "done", seen |-> "New" ]
        /\ workers[t] = [ job |-> "pricing", pc |-> "done", seen |-> "New" ]
        /\ StatusOf(RaceProject) = "Design"
\* a null amount counts as 0
AmountOrZero(v) == IF v = SqlNull THEN 0 ELSE v

HasEvent(type) == \E i \in 1..Len(ledger.events) : ledger.events[i].payment_type = type

\* C18: for the commission row of a listed project the ledger holds a
\* 'deposit' event iff deposit_received_date is set, and a 'final' event
\* iff final_payment_date is set, total_amount_received >= deposit_amount
\* and total_amount_received > 0.
C18_LedgerEvents ==
    (ledger.pc \in {"queried", "shown"} /\ ledger.row.listed) =>
        /\ HasEvent("deposit") <=> ledger.row.deposit_received_date # NULL
        /\ HasEvent("final") <=>
              /\ ledger.row.final_payment_date # NULL
              /\ AmountOrZero(ledger.row.total_amount_received)
                    >= AmountOrZero(ledger.row.deposit_amount)
              /\ AmountOrZero(ledger.row.total_amount_received) > 0

\* C18 witness: a row with both dates set and nothing received yields the
\* deposit event and no final event.
C18_UnpaidFinalNotListed ==
    /\ ledger.pc = "queried"
    /\ ledger.row.listed
    /\ ledger.row.deposit_received_date # NULL
    /\ ledger.row.final_payment_date # NULL
    /\ ledger.row.total_amount_received = 0
    /\ ledger.row.deposit_amount = 0
    /\ Len(ledger.events) = 1
    /\ ledger.events[1].payment_type = "deposit"

\* C19 as stated: the commission of every event is
\* payment_amount * commission_rate / 100 with the rate stored on the
\* project, 10 standing in only for a null rate, and the total is their sum.
C19_AsStated ==
    ledger.pc = "shown" =>
        LET rate == IF ledger.row.commission_rate = SqlNull THEN 10
                    ELSE ledger.row.commission_rate
        IN  /\ \A i \in 1..Len(ledger.events) :
                  ledger.shown[i] = (ledger.events[i].payment_amount * rate) \div 100
            /\ ledger.total =
                  SumSeq([i \in 1..Len(ledger.events) |->
                             (ledger.events[i].payment_amount * rate) \div 100])
\* the groups that hold the payment row with this id
GroupsHolding(id) ==
    { g \in 1..Len(period_groups.grouped) :
        \E j \in 1..Len(period_groups.grouped[g].commissions) :
            period_groups.grouped[g].commissions[j].id = id }

\* C20: every payment row with a payment date is in exactly one group,
\* the one keyed by the year and month of the date and the period (1 for
\* days 1-15, 2 for day 16 to the end of the month), and the groups come
\* in strictly descending order of (year, month, period).
C20_GroupedByPeriod ==
    period_groups.pc = "grouped" =>
        /\ \A i \in 1..Len(period_groups.commissions) :
              LET d == period_groups.commissions[i].payment_date
              IN  d # NULL =>
                    /\ Cardinality(GroupsHolding(i)) = 1
                    /\ \A g \in GroupsHolding(i) :
                          /\ period_groups.grouped[g].key =
                                << d \div 10000, (d \div 100) % 100,
                                   IF d % 100 \in 1..15 THEN 1 ELSE 2 >>
                          /\ Cardinality({ j \in 1..Len(period_groups.grouped[g].commissions) :
                                period_groups.grouped[g].commissions[j].id = i }) = 1
        /\ \A g, h \in 1..Len(period_groups.grouped) :
              g < h =>
                 LET a == period_groups.grouped[g].key
                     b == period_groups.grouped[h].key
                 IN  \/ a[1] > b[1]
                     \/ a[1] = b[1] /\ a[2] > b[2]
                     \/ a[1] = b[1] /\ a[2] = b[2] /\ a[3] > b[3]

\* C20 witness: payments of the 15th and the 16th of one month and one of
\* another year came out as three groups.
C20_ThreeGroups ==
    /\ period_groups.pc = "grouped"
    /\ Len(period_groups.grouped) = 3
    /\ \E i, j \in 1..Len(period_groups.commissions) :
          /\ period_groups.commissions[i].payment_date = 20251215
          /\ period_groups.commissions[j].payment_date = 20251216

\* the half of its month a date falls in: (year, month, 1 or 2)
PeriodOf(date) ==
    << YearOf(date), MonthOf(date), IF DayOf(date) <= 15 THEN 1 ELSE 2 >>

\* the report period of a day by the calendar rule: the first half of the
\* month on the 16th, the second half of the month before on the 1st, the
\* half that holds the day otherwise
ReportPeriodOn(date) ==
    IF DayOf(date) = 16 THEN << YearOf(date), MonthOf(date), 1 >>
    ELSE IF DayOf(date) = 1
         THEN (IF MonthOf(date) = 1 THEN << YearOf(date) - 1, 12, 2 >>
                                    ELSE << YearOf(date), MonthOf(date) - 1, 2 >>)
         ELSE PeriodOf(date)

\* C21: the report period is the first half of the month on the 16th, the
\* second half of the previous month on the 1st (December of the year
\* before on January 1) and the half-month holding today otherwise, and
\* the filter returns exactly the rows paid in that period, in order.
C21_ReportPeriod ==
    report.pc = "filtered" =>
        /\ SubSeq(report.period, 1, 3) = ReportPeriodOn(report.today)
        /\ report.filtered =
              SelectSeq(report.commissions, LAMBDA c :
                  /\ c.payment_date # NULL
                  /\ PeriodOf(c.payment_date) = ReportPeriodOn(report.today))

\* C21 witness: on January 1 the report holds a payment of the December
\* before and leaves out a payment dated that same January 1.
C21_NewYearReport ==
    /\ report.pc = "filtered"
    /\ MonthOf(report.today) = 1
    /\ DayOf(report.today) = 1
    /\ Len(report.filtered) = 1
    /\ YearOf(report.filtered[1].payment_date) = YearOf(report.today) - 1
    /\ \E i \in 1..Len(report.commissions) :
          report.commissions[i].payment_date = report.today

\* the weekdays d with lo < d < hi
WeekdaysStrictlyBetween(lo, hi) ==
    { d \in Ordinals : lo < d /\ d < hi /\ weekday(d) \in 0..4 }

\* the weekdays d with lo <= d < hi
WeekdaysFrom(lo, hi) ==
    { d \in Ordinals : lo <= d /\ d < hi /\ weekday(d) \in 0..4 }

BothGiven ==
    /\ business_days.pc = "returned"
    /\ business_days.from_date.kind # "None"
    /\ business_days.to_date.kind # "None"

\* C22 as stated: the result is the number of weekdays strictly between
\* the two dates, the start date not counted.
C22_AsStated ==
    BothGiven =>
        business_days.result =
            Cardinality(WeekdaysStrictlyBetween(business_days.from_date.day,
                                                business_days.to_date.day))

\* C22: the result is the number of weekdays d with from <= d < to, so the
\* start date is counted when it is a weekday and the end date never is;
\* the result is 0 when either argument is absent.
C22_HalfOpen ==
    business_days.pc = "returned" =>
        IF BothGiven
        THEN business_days.result =
                Cardinality(WeekdaysFrom(business_days.from_date.day,
                                         business_days.to_date.day))
        ELSE business_days.result = 0

\* C22 witness: from a Monday to the Tuesday after it the count is 1, the
\* Monday itself.
C22_StartCounted ==
    /\ BothGiven
    /\ weekday(business_days.from_date.day) = 0
    /\ business_days.to_date.day = business_days.from_date.day + 1
    /\ business_days.result = 1

\* C23: a date to itself counts 0, a Monday to the Friday of its week
\* counts 4, a Friday to the Monday after it counts 1.
C23_Examples ==
    BothGiven =>
        LET from_day == business_days.from_date.day
            to_day == business_days.to_date.day
        IN  /\ from_day = to_day => business_days.result = 0
            /\ weekday(from_day) = 0 /\ to_day = from_day + 4 => business_days.result = 4
            /\ weekday(from_day) = 4 /\ to_day = from_day + 3 => business_days.result = 1

\* C23 witness: a Friday afternoon to the Monday morning after it counted
\* as one business day.
C23_FridayToMonday ==
    /\ BothGiven
    /\ business_days.from_date.kind = "datetime"
    /\ weekday(business_days.from_date.day) = 4
    /\ business_days.to_date.day = business_days.from_date.day + 3
    /\ business_days.result = 1

\* the nudge the rule gives a status after that many business days
NudgeDue(status, counted) ==
    \/ status = "Design" /\ counted > 3
    \/ status = "Quoting" /\ counted > 1
    \/ status = "Awaiting Deposit" /\ counted > 3

Answered(code, status) ==
    /\ webhook.code = code
    /\ webhook.status = status

NothingStored ==
    /\ webhook.projects = 0
    /\ webhook.project_history = 0

OneNewProject ==
    /\ webhook.projects = 1
    /\ webhook.new_status = "New"

\* create_lead returned False: the engine was missing or a statement failed
CreationFailed == webhook.message = "Failed to create lead"

\* C26 as stated: an object with a name, phone or email creates one project
\* and is answered 200 (unless the creation fails); an object whose name,
\* phone and email are all empty, and a body that is not JSON, create
\* nothing and are answered 400.
C26_AsStated ==
    webhook.pc = "answered" =>
        /\ webhook.kind = "object" /\ ~CreationFailed =>
              IF webhook.fields.name # "" \/ webhook.fields.phone # "" \/ webhook.fields.email # ""
              THEN OneNewProject /\ Answered(200, "success")
              ELSE NothingStored /\ Answered(400, "error")
        /\ webhook.kind = "invalid_json" => NothingStored /\ Answered(400, "error")
        /\ CreationFailed => NothingStored

\* C26: an object with a name or client_name, a phone or phone_number, or an
\* email creates exactly one project with status New and is answered 200
\* "success", unless the creation fails, which stores nothing and is
\* answered 400 "error"; an object with all five empty, and text that is
\* not JSON, store nothing and are answered 400 "error"; bytes that are not
\* UTF-8 and JSON that is not an object raise and are answered 500.
C26_WebhookAnswers ==
    webhook.pc = "answered" =>
        /\ webhook.tx = [ projects |-> 0, project_history |-> 0 ]
        /\ CASE webhook.kind = "object" ->
                   IF \E k \in DOMAIN webhook.fields : webhook.fields[k] # ""
                   THEN \/ OneNewProject /\ Answered(200, "success")
                        \/ CreationFailed /\ NothingStored /\ Answered(400, "error")
                   ELSE NothingStored /\ Answered(400, "error")
             [] webhook.kind = "invalid_json" -> NothingStored /\ Answered(400, "error")
             [] OTHER -> NothingStored /\ Answered(500, "error")
        /\ ~webhook.engine => NothingStored

\* C26 witness: the INSERT of the project row had run when a later
\* statement failed; nothing is stored and the answer is 400.
C26_FailedAfterInsert ==
    /\ webhook.pc = "answered"
    /\ webhook.new_status = "New"
    /\ CreationFailed
    /\ NothingStored
    /\ Answered(400, "error")

NoEngine == service_call.database_url # "postgresql"

\* a setting of the SMTP setup is missing: empty, or the port left blank
SmtpIncomplete ==
    \/ service_call.smtp.SMTP_SERVER = ""
    \/ service_call.smtp.SMTP_PORT = ""
    \/ service_call.smtp.SMTP_EMAIL = ""
    \/ service_call.smtp.SMTP_PASSWORD = ""

\* C27 as stated: without an engine a read returns an empty or default
\* result and a write returns False or a pair whose first element is
\* false, none raises and none runs a statement; with an incomplete SMTP
\* setup send_email returns (False, message) and does not raise.
C27_AsStated ==
    service_call.pc = "returned" =>
        /\ NoEngine /\ service_call.fn \in DatabaseReads =>
              /\ service_call.result \in {"[]", "None", "default"}
              /\ service_call.raised = "none"
              /\ service_call.statements = 0
        /\ NoEngine /\ service_call.fn \in DatabaseWrites =>
              /\ service_call.result \in {"False", "(False, message)", "(None, message)"}
              /\ service_call.raised = "none"
              /\ service_call.statements = 0
        /\ SmtpIncomplete /\ service_call.fn = "send_email" =>
              /\ service_call.result = "(False, message)"
              /\ service_call.raised = "none"

\* C28 as stated: a run of "Lock as Master" or "Save Signed Spec" whose
\* UPDATE committed appended one history entry and did not raise, and a
\* deposit confirmation that committed did not raise and appended the
\* 'deposit_received' touch.
C28_AsStated ==
    /\ lastOp.op \in {"LockMasterSpec", "SaveSignedSpec"} /\ lastOp.ok =>
          /\ ~lastOp.raised
          /\ lastOp.hist = 1
    /\ lastOp.op = "ConfirmDeposit" /\ lastOp.ok =>
          /\ ~lastOp.raised
          /\ lastOp.touch = 1

\* C29 as stated: a run that deleted a project row found the project in
\* status Archived and was made with the delete confirmation ticked.
C29_AsStated ==
    lastOp.op \in {"FooterDelete", "HotLeadYes"} /\ lastOp.ok =>
        /\ lastOp.pre = "Archived"
        /\ delete_ui[lastOp.s].confirm_delete
\* the payment amounts of the ledger events of the queried project
EventAmounts == [i \in 1..Len(ledger.events) |-> ledger.events[i].payment_amount]

====
